---- MODULE Spec2Model ----
(***************************************************************************)
(* A model of the Chutes MCP server's tool entry points: one tool          *)
(* invocation from entry to its outcome, with the provider, the upload SDK *)
(* and the file system as the environment.                                 *)
(*                                                                         *)
(* Text is a sequence of one-character strings.  A JSON document on the    *)
(* wire is one symbol (its literal text); json.loads is a table from such  *)
(* symbols to parsed values, and everything the code does with the parsed  *)
(* value (subscripts, .get, truthiness, +=) is computed on the value.      *)
(***************************************************************************)
EXTENDS Integers, Sequences, FiniteSets, TLC

\* ------------------------------------------------------------------ bounds

\* Longest event stream a provider response carries.
MaxLines == 3

\* ------------------------------------------------------- Python primitives

\* str.strip() removes these from both ends.
Whitespace == {" ", "\t", "\r", "\n"}

\* A byte that is not valid UTF-8 anywhere in a line.
InvalidByte == "0xFF"

RECURSIVE LStrip(_)
LStrip(s) ==
    IF s # <<>> /\ Head(s) \in Whitespace THEN LStrip(Tail(s)) ELSE s

RECURSIVE RStrip(_)
RStrip(s) ==
    IF s # <<>> /\ s[Len(s)] \in Whitespace
    THEN RStrip(SubSeq(s, 1, Len(s) - 1))
    ELSE s

\* A line left as it was decoded.
NoStrip(s) == s

\* str.strip()
Strip(s) == RStrip(LStrip(s))

\* A comparison of lengths only.
StartsWithLengthOnly(s, prefix) == Len(s) >= Len(prefix)

\* str.startswith(prefix)
StartsWith(s, prefix) ==
    Len(s) >= Len(prefix) /\ SubSeq(s, 1, Len(prefix)) = prefix

\* s[n:]
SliceFrom(s, n) == SubSeq(s, n + 1, Len(s))

\* bytes.decode("utf-8"): UnicodeDecodeError on any invalid byte.
Decode(bytes) ==
    IF \E i \in 1..Len(bytes) : bytes[i] = InvalidByte
    THEN [ok |-> FALSE, text |-> <<>>]
    ELSE [ok |-> TRUE, text |-> bytes]

\* ------------------------------------------------------------- JSON values

JNull == [t |-> "null", v |-> <<>>]
JStr(s) == [t |-> "str", v |-> s]
JNum(n) == [t |-> "num", v |-> n]
JArr(a) == [t |-> "arr", v |-> a]
JObj(o) == [t |-> "obj", v |-> o]

\* The outcome of a Python expression: a value, or an exception raised.
Val(x) == [ok |-> TRUE, val |-> x, exc |-> "none"]
Raised(e) == [ok |-> FALSE, val |-> JNull, exc |-> e]

\* value[key] with a string key
GetItemKey(r, key) ==
    IF ~r.ok THEN r
    ELSE IF r.val.t = "obj"
         THEN IF key \in DOMAIN r.val.v THEN Val(r.val.v[key]) ELSE Raised("KeyError")
         ELSE Raised("TypeError")

\* value[0]
GetItemZero(r) ==
    IF ~r.ok THEN r
    ELSE CASE r.val.t = "arr" ->
                IF Len(r.val.v) > 0 THEN Val(r.val.v[1]) ELSE Raised("IndexError")
           [] r.val.t = "str" ->
                IF Len(r.val.v) > 0 THEN Val(JStr(<<r.val.v[1]>>)) ELSE Raised("IndexError")
           [] r.val.t = "obj" -> Raised("KeyError")
           [] OTHER -> Raised("TypeError")

\* value.get(key): only a dict has .get
MethodGet(r, key) ==
    IF ~r.ok THEN r
    ELSE IF r.val.t = "obj"
         THEN IF key \in DOMAIN r.val.v THEN Val(r.val.v[key]) ELSE Val(JNull)
         ELSE Raised("AttributeError")

\* bool(value)
Truthy(x) ==
    CASE x.t = "null" -> FALSE
      [] x.t = "str" -> Len(x.v) > 0
      [] x.t = "num" -> x.v # 0
      [] x.t = "arr" -> Len(x.v) > 0
      [] x.t = "obj" -> DOMAIN x.v # {}
      [] x.t = "bool" -> x.v
      [] OTHER -> TRUE

\* ---------------------------------------------------- the provider's stream

DataPrefix == <<"d", "a", "t", "a", ":", " ">>
DataNoSpace == <<"d", "a", "t", "a", ":">>
DoneText == <<"[", "D", "O", "N", "E", "]">>
LF == <<"\n">>
CRLF == <<"\r", "\n">>

J_He == "{\"choices\":[{\"delta\":{\"content\":\"He\"}}]}"
J_llo == "{\"choices\":[{\"delta\":{\"content\":\"llo\"}}]}"
J_empty == "{\"choices\":[{\"delta\":{\"content\":\"\"}}]}"
J_nochoices == "{\"choices\":[]}"
J_nokey == "{\"id\":\"x\"}"
J_nulldelta == "{\"choices\":[{\"delta\":null}]}"
J_numcontent == "{\"choices\":[{\"delta\":{\"content\":5}}]}"
J_notjson == "{not json"
J_answer == "{\"choices\":[{\"message\":{\"content\":\"Hello\"}}]}"
J_nullchoice == "{\"choices\":[null]}"
J_nullcontent == "{\"choices\":[{\"message\":{\"content\":null}}]}"

\* json.loads on the documents above: the parsed value of each well-formed
\* one.  Anything else is a JSONDecodeError.
JsonDocs ==
    (J_He :> JObj([choices |-> JArr(<<JObj([delta |-> JObj([content |-> JStr(<<"H", "e">>)])])>>)]))
    @@ (J_llo :> JObj([choices |-> JArr(<<JObj([delta |-> JObj([content |-> JStr(<<"l", "l", "o">>)])])>>)]))
    @@ (J_empty :> JObj([choices |-> JArr(<<JObj([delta |-> JObj([content |-> JStr(<<>>)])])>>)]))
    @@ (J_nochoices :> JObj([choices |-> JArr(<<>>)]))
    @@ (J_nokey :> JObj([id |-> JStr(<<"x">>)]))
    @@ (J_nulldelta :> JObj([choices |-> JArr(<<JObj([delta |-> JNull])>>)]))
    @@ (J_numcontent :> JObj([choices |-> JArr(<<JObj([delta |-> JObj([content |-> JNum(5)])])>>)]))
    @@ (J_answer :> JObj([choices |-> JArr(<<JObj([message |-> JObj([content |-> JStr(<<"H", "e", "l", "l", "o">>)])])>>)]))
    @@ (J_nullchoice :> JObj([choices |-> JArr(<<JNull>>)]))
    @@ (J_nullcontent :> JObj([choices |-> JArr(<<JObj([message |-> JObj([content |-> JNull])])>>)]))

\* json.loads(data): surrounding whitespace is allowed, then exactly one
\* document.
JsonLoads(data) ==
    LET core == RStrip(LStrip(data)) IN
    IF Len(core) = 1 /\ core[1] \in DOMAIN JsonDocs
    THEN Val(JsonDocs[core[1]])
    ELSE Raised("JSONDecodeError")

\* A line as the provider formats it: optional leading whitespace, a field
\* head, the payload, the line end.
SSELine(lead, head, payload, trail) ==
    [lead |-> lead, head |-> head, payload |-> payload, trail |-> trail]

\* The bytes of the line on the wire.
Bytes(l) == l.lead \o l.head \o l.payload \o l.trail

EventHead == <<"e", "v", "e", "n", "t", ":">>

L_He == SSELine(<<>>, DataPrefix, <<J_He>>, LF)
L_llo == SSELine(<<" ">>, DataPrefix, <<J_llo>>, CRLF)
L_done == SSELine(<<>>, DataPrefix, DoneText, LF)
L_notjson == SSELine(<<>>, DataPrefix, <<J_notjson>>, LF)
L_nochoices == SSELine(<<>>, DataPrefix, <<J_nochoices>>, LF)
L_nokey == SSELine(<<>>, DataPrefix, <<J_nokey>>, LF)
L_nulldelta == SSELine(<<>>, DataPrefix, <<J_nulldelta>>, LF)
L_empty == SSELine(<<>>, DataPrefix, <<J_empty>>, LF)
L_numcontent == SSELine(<<>>, DataPrefix, <<J_numcontent>>, LF)
L_spaceDone == SSELine(<<>>, DataPrefix, <<" ">> \o DoneText, LF)
L_emptyData == SSELine(<<>>, DataPrefix, <<>>, LF)
L_blank == SSELine(<<>>, <<>>, <<>>, LF)
L_event == SSELine(<<>>, EventHead, DoneText, LF)
L_nospace == SSELine(<<>>, DataNoSpace, DoneText, LF)
L_undecodable == SSELine(<<>>, <<>>, <<InvalidByte>>, LF)
L_undecodableData == SSELine(<<>>, DataPrefix, <<InvalidByte>>, LF)

\* The lines a provider may send.
LineKinds ==
    { L_He, L_llo, L_done, L_notjson, L_nochoices, L_nokey, L_nulldelta,
      L_empty, L_numcontent, L_spaceDone, L_emptyData, L_blank,
      L_event, L_nospace, L_undecodable, L_undecodableData }

\* Every event stream of at most MaxLines lines.
Streams == UNION { [1..n -> LineKinds] : n \in 0..MaxLines }

\* ----------------------------------------------------------- configuration

\* YAML values: a mapping, a string, null, and a timestamp scalar, which
\* yaml.safe_load turns into a datetime.date.
YMap(f) == [t |-> "obj", v |-> f]
YStr(s) == [t |-> "str", v |-> s]
YNull == [t |-> "null", v |-> ""]
YDate == [t |-> "date", v |-> "2024-01-01"]
YNum(n) == [t |-> "num", v |-> n]
YList(a) == [t |-> "arr", v |-> a]
YBool(b) == [t |-> "bool", v |-> b]
\* A key the document does not have.
Absent == [t |-> "absent", v |-> ""]

\* The mapping with the absent keys left out.
YMapOf(f) == YMap([k \in {x \in DOMAIN f : f[x].t # "absent"} |-> f[k]])

\* key.split('.') on a key given as its segments and dots.
RECURSIVE SplitAcc(_, _)
SplitAcc(rest, cur) ==
    IF rest = <<>> THEN <<cur>>
    ELSE IF Head(rest) = "." THEN <<cur>> \o SplitAcc(Tail(rest), "")
    ELSE SplitAcc(Tail(rest), cur \o Head(rest))

SplitDot(key) == SplitAcc(key, "")

\* for k in keys: value = value[k]
RECURSIVE Walk(_, _)
Walk(r, keys) ==
    IF keys = <<>> \/ ~r.ok THEN r
    ELSE Walk(GetItemKey(r, Head(keys)), Tail(keys))

\* A handler for KeyError alone.
CaughtKeyErrorOnly(exc) == exc = "KeyError"

\* `except (KeyError, TypeError):`
CaughtByGet(exc) == exc \in {"KeyError", "TypeError"}

\* A lookup that falls back to the default for a null value too.
FoundValueOrDefault(value, default) == IF value.t = "null" THEN default ELSE value

\* `return value`: what the walk ended at, whatever it is.
FoundValue(value, default) == value

\* Config.get(key, default) as a call: the value returned or the exception
\* that leaves it.
ConfigGetOutcome(cfg, key, default) ==
    LET r == Walk(Val(cfg), SplitDot(key)) IN
    IF r.ok THEN Val(FoundValue(r.val, default))
    ELSE IF CaughtByGet(r.exc) THEN Val(default)
    ELSE r

\* Config.get(key, default): KeyError and TypeError give the default.
ConfigGet(cfg, key, default) == ConfigGetOutcome(cfg, key, default).val

\* `not value`
MissingValueStrict(x) == x.t = "null"

MissingValue(x) == ~Truthy(x)

\* The two checks in the other order.
ConfigCheckEndpointFirst(api_token, endpoint) ==
    IF MissingValue(endpoint) THEN "endpoint"
    ELSE IF MissingValue(api_token) THEN "token"
    ELSE "ok"

\* The configuration checks at the head of a tool: `if not api_token: raise`,
\* then `if not <endpoint>: raise`.
ConfigCheck(api_token, endpoint) ==
    IF MissingValue(api_token) THEN "token"
    ELSE IF MissingValue(endpoint) THEN "endpoint"
    ELSE "ok"

\* ------------------------------------------------------------------- tools

GenTools ==
    { "generate_image", "edit_image", "generate_music",
      "generate_video_from_text", "generate_video_from_image",
      "generate_video_from_image_fast" }

ChatTools == { "stream_chat", "chat" }

\* The tools that report progress through the MCP context.
ContextTools == { "stream_chat", "chat", "generate_image", "edit_image" }

\* The capability whose endpoint (and metadata model) a tool reads.
Capability ==
    [ stream_chat |-> "llm",
      chat |-> "llm",
      generate_image |-> "text_to_image",
      edit_image |-> "image_to_image",
      generate_music |-> "text_to_music",
      generate_video_from_text |-> "text_to_video",
      generate_video_from_image |-> "image_to_video",
      generate_video_from_image_fast |-> "image_to_video_fast" ]

K_api_token == <<"chutes", ".", "api_token">>
K_endpoint(tl) == <<"chutes", ".", "endpoints", ".", Capability[tl]>>
K_metadata_model(tl) == <<"metadata", ".", "models", ".", Capability[tl]>>
K_public_key == <<"imagekit", ".", "public_key">>
K_private_key == <<"imagekit", ".", "private_key">>
K_url_endpoint == <<"imagekit", ".", "url_endpoint">>

TokenMsg == "CHUTES_API_TOKEN environment variable not set."
StepsMsg == "num_inference_steps cannot exceed 60."
UnexpectedMsg == "An unexpected error occurred: "
ParseMsg == "Error parsing response from Chutes API: "

EndpointMsg ==
    [ stream_chat |-> "LLM endpoint not configured in config.yaml.",
      chat |-> "LLM endpoint not configured in config.yaml.",
      generate_image |-> "Text-to-image endpoint not configured in config.yaml.",
      edit_image |-> "Image-to-image endpoint not configured in config.yaml.",
      generate_music |-> "Text-to-music endpoint not configured in config.yaml.",
      generate_video_from_text |-> "Text-to-video endpoint not configured in config.yaml.",
      generate_video_from_image |-> "Image-to-video endpoint not configured in config.yaml.",
      generate_video_from_image_fast |-> "Fast image-to-video endpoint not configured in config.yaml." ]

ClientErrorMsg ==
    [ stream_chat |-> "Error connecting to Chutes API: ",
      chat |-> "Error connecting to Chutes API: ",
      generate_image |-> "Error calling Chutes Image API: ",
      edit_image |-> "Error calling Chutes Image Edit API: ",
      generate_music |-> "Error calling Chutes Music API: ",
      generate_video_from_text |-> "Error calling Chutes Text-to-Video API: ",
      generate_video_from_image |-> "Error calling Chutes Image-to-Video API: ",
      generate_video_from_image_fast |-> "Error calling Chutes Fast Image-to-Video API: " ]

\* generate_image's ceiling on num_inference_steps.
MaxInferenceSteps == 60

\* ------------------------------------------------------------ the SSE loop

\* The inner handlers of the loop body: `except json.JSONDecodeError` and
\* `except Exception` between them catch every exception of a chunk.
ChunkErrorEscapesUnlessJson(exc) == exc # "JSONDecodeError"

ChunkErrorEscapes(exc) == FALSE

\* Lines 84-87 on one payload: the text to append, or the exception raised.
\*   chunk_data = json.loads(data)
\*   if chunk_data["choices"][0]["delta"].get("content"):
\*       full_response += chunk_data["choices"][0]["delta"]["content"]
ChunkContent(data) ==
    LET chunk_data == JsonLoads(data)
        delta == GetItemKey(GetItemZero(GetItemKey(chunk_data, "choices")), "delta")
        got == MethodGet(delta, "content")
    IN  IF ~got.ok THEN [exc |-> got.exc, text |-> <<>>]
        ELSE IF ~Truthy(got.val) THEN [exc |-> "none", text |-> <<>>]
        ELSE IF got.val.t # "str" THEN [exc |-> "TypeError", text |-> <<>>]
        ELSE [exc |-> "none", text |-> got.val.v]

\* A loop whose decoding is covered by the handlers of the chunk.
DecodeErrorConfined(dec) == "continue"

\* Line 77, `line.decode("utf-8")`, stands before the inner try: its
\* UnicodeDecodeError leaves the loop.
DecodeError(dec) == "raise"

\* One pass of the loop body (lines 77-91) on the bytes of a line with the
\* accumulator acc: what the loop does next and the accumulator after it.
ProcessLine(bytes, acc) ==
    LET dec == Decode(bytes)
        line == Strip(dec.text)
        data == SliceFrom(line, 6)
        chunk == ChunkContent(data)
    IN  IF ~dec.ok THEN [next |-> DecodeError(dec), acc |-> acc]
        ELSE IF ~StartsWith(line, DataPrefix) THEN [next |-> "continue", acc |-> acc]
        ELSE IF data = DoneText THEN [next |-> "break", acc |-> acc]
        ELSE IF chunk.exc = "none" THEN [next |-> "continue", acc |-> acc \o chunk.text]
        ELSE IF ChunkErrorEscapes(chunk.exc) THEN [next |-> "raise", acc |-> acc]
        ELSE [next |-> "continue", acc |-> acc]

\* How the iteration over response.content ends when the lines run out:
\* a clean end of stream leaves the loop, a broken connection raises.
EndStrict(ending) == "raise"

EndLenient(ending) == "finish"

EndOfStream(ending) == IF ending = "eof" THEN "finish" ELSE "raise"

\* ----------------------------------------------------------- upload adapter

PlaceholderPublicKey == "your_public_key"
PlaceholderPrivateKey == "your_private_key"
PlaceholderUrlEndpoint == "your_url_endpoint"

IsString(x, s) == x.t = "str" /\ x.v = s

UnconfiguredIgnoringPlaceholders(public_key, private_key, url_endpoint) ==
    ~(Truthy(public_key) /\ Truthy(private_key) /\ Truthy(url_endpoint))

\* The condition of get_imagekit_instance under which it returns None.
Unconfigured(public_key, private_key, url_endpoint) ==
    \/ ~(Truthy(public_key) /\ Truthy(private_key) /\ Truthy(url_endpoint))
    \/ IsString(public_key, PlaceholderPublicKey)
    \/ IsString(private_key, PlaceholderPrivateKey)
    \/ IsString(url_endpoint, PlaceholderUrlEndpoint)

\* get_imagekit_instance() is None
NoImagekitInstance(cfg) ==
    Unconfigured(ConfigGet(cfg, K_public_key, YNull),
                 ConfigGet(cfg, K_private_key, YNull),
                 ConfigGet(cfg, K_url_endpoint, YNull))

\* The metadata map a tool passes to the upload: the configured model name
\* and the generation parameters (here the prompt and the seed, by default
\* None).
Metadata(cfg, tl) ==
    [ model |-> ConfigGet(cfg, K_metadata_model(tl), YNull),
      prompt |-> YStr("a red fox"),
      seed |-> YNull ]

\* A filter on truthiness: `if v`.
FilterFalsy(metadata) ==
    [k \in {x \in DOMAIN metadata : Truthy(metadata[x])} |-> metadata[k]]

\* {k: v for k, v in metadata.items() if v is not None}
FilterNone(metadata) ==
    [k \in {x \in DOMAIN metadata : metadata[x].t # "null"} |-> metadata[k]]

\* json.dumps raises TypeError on a value that is no JSON type.
JsonDumpsRaises(m) ==
    \E k \in DOMAIN m : m[k].t \notin {"str", "num", "bool", "null", "arr", "obj"}

\* json.dumps of a scalar.
JsonScalar(x) ==
    CASE x.t = "str" -> "\"" \o x.v \o "\""
      [] x.t = "num" -> ToString(x.v)
      [] x.t = "bool" -> IF x.v THEN "true" ELSE "false"
      [] x.t = "null" -> "null"

\* The keys of the metadata map of a tool, in the order it inserts them.
MetadataKeys == <<"model", "prompt", "seed">>

\* json.dumps(filtered_metadata, indent=2): the text, as its members in
\* insertion order, each a key and the text of its value.
RECURSIVE DumpMembers(_, _)
DumpMembers(m, keys) ==
    IF keys = <<>> THEN <<>>
    ELSE (IF Head(keys) \in DOMAIN m
          THEN << <<"\"" \o Head(keys) \o "\"", JsonScalar(m[Head(keys)])>> >>
          ELSE <<>>) \o DumpMembers(m, Tail(keys))

JsonDumps(m) == [t |-> "str", v |-> DumpMembers(m, MetadataKeys)]

\* request_metadata: {"generation_parameters": metadata_json}
RequestMetadata(metadata) ==
    [generation_parameters |-> JsonDumps(FilterNone(metadata))]

SameTempPath(onDisk) == "/tmp/tmp_a"

\* The name tempfile.NamedTemporaryFile gives the file it creates.
FreshTempPath(onDisk) == CHOOSE p \in {"/tmp/tmp_a", "/tmp/tmp_b"} : p \notin onDisk

CaptionAlways(p) == TRUE

\* `if analyze_image_with_llm:`
CaptionWanted(p) == p.analyze_image_with_llm

AlwaysUpload(p) == TRUE

\* `if save_to_file:`
ShouldUpload(p) == p.save_to_file

\* ---------------------------------------------------------- ask_with_images

\* The longest list of images a call is given.
MaxImages == 3

Http == <<"h", "t", "t", "p">>
DataImage == <<"d", "a", "t", "a", ":", "i", "m", "a", "g", "e">>

\* An element of the images argument: its Python type and, for a str, its
\* text, kept as the scheme it opens with and the rest.
ImageBytes(data) == [type |-> "bytes", scheme |-> <<>>, rest |-> <<data>>]
ImageStr(scheme, rest) == [type |-> "str", scheme |-> scheme, rest |-> rest]

I_http == ImageStr(Http, <<":", "/", "/", "cdn.example/a.jpg">>)
I_https == ImageStr(Http, <<"s", ":", "/", "/", "cdn.example/b.png">>)
I_data == ImageStr(DataImage, <<"/", "png;base64,iVBORw0KGgo=">>)
I_bare == ImageStr(<<>>, <<"i", "V", "B", "O", "R", "w", "0", "K", "G", "g", "o", "=">>)
I_upper == ImageStr(<<>>, <<"H", "T", "T", "P", ":", "/", "/", "cdn.example/a.jpg">>)
I_datatext == ImageStr(<<>>, <<"d", "a", "t", "a", ":", "t", "e", "x", "t", "/", "plain,hi">>)
I_short == ImageStr(<<>>, <<"h", "t", "t">>)
I_none == [type |-> "NoneType", scheme |-> <<>>, rest |-> <<>>]

StrImages == { I_http, I_https, I_data, I_bare, I_upper, I_datatext, I_short }
ImageKinds == StrImages \cup { ImageBytes("bytes-1"), I_none }

\* The text of a str element.
ImageText(img) == img.scheme \o img.rest

\* base64.b64encode(img).decode("utf-8")
B64Encode(data) ==
    CASE data = "bytes-1" -> "Ynl0ZXMtMQ=="
      [] data = "bytes-2" -> "Ynl0ZXMtMg=="

\* f"data:image/jpeg;base64,{base64_image}"
JpegDataUri(base64_image) ==
    <<"d", "a", "t", "a", ":", "i", "m", "a", "g", "e", "/jpeg;base64,", base64_image>>

AcceptsAnyString(text) == TRUE

\* img.startswith("http") or img.startswith("data:image")
AcceptsString(text) == StartsWith(text, Http) \/ StartsWith(text, DataImage)

TextBlock(prompt) == [type |-> "text", text |-> prompt, url |-> <<>>]
ImageBlock(u) == [type |-> "image_url", text |-> "", url |-> u]

\* The loop over images: what it leaves in messages[0]["content"].
RECURSIVE AppendImages(_, _)
AppendImages(content, images) ==
    IF images = <<>> THEN content
    ELSE LET img == Head(images)
             appended ==
                 IF img.type = "bytes"
                 THEN Append(content, ImageBlock(JpegDataUri(B64Encode(img.rest[1]))))
                 ELSE IF img.type = "str" /\ AcceptsString(ImageText(img))
                 THEN Append(content, ImageBlock(ImageText(img)))
                 ELSE content
         IN  AppendImages(appended, Tail(images))

\* The request body ask_with_images posts.
AskBody(prompt, images) ==
    [ messages |-> << [ role |-> "user",
                        content |-> AppendImages(<<TextBlock(prompt)>>, images) ] >>,
      stream |-> FALSE ]

AnalysisPrompt == "Describe this image in detail and identify any key objects or themes."
NoImagesMsg == "No images provided for description."
DescribeTotalSteps == 3

\* ------------------------------------------------------------------- state

VARIABLES
    tool,              \* the tool invoked
    params,            \* its parameters
    config,            \* the loaded configuration document
    pc,                \* where the invocation is
    result,            \* what the caller receives
    netlog,            \* the outbound calls made, in order
    reports,           \* the progress reports made, in order
    status,            \* the HTTP status of the tool's request, 0 before it
    stream,            \* stream_chat: the lines of the response
    ending,            \* stream_chat: how the response ended after them
    pos,               \* stream_chat: lines read so far
    full_response,     \* stream_chat: the accumulator
    body,              \* a generation tool: the bytes of the response
    url,               \* what upload_to_imagekit returns
    temp_file_path,    \* upload_to_imagekit: its local of that name
    disk,              \* the temporary files that exist
    created,           \* the temporary files this invocation created
    probe,             \* check_mcp_status: the component the loop is at
    structured_statuses, \* check_mcp_status: the entries collected so far
    status_messages,   \* check_mcp_status: the lines of its text, so far
    responses,         \* check_mcp_status: what each probe sent met with
    sent_bodies,       \* ask_with_images: the request bodies it sent
    tasks,             \* concurrent invocations: each one's locals
    running            \* concurrent invocations: who holds the event loop

vars ==
    << tool, params, config, pc, result, netlog, reports, status, stream, ending, pos,
       full_response, body, url, temp_file_path, disk, created,
       probe, structured_statuses, status_messages, responses, sent_bodies, tasks,
       running >>

streamVars == << stream, ending, pos, full_response >>
uploadVars == << url, temp_file_path, disk, created >>
healthVars == << probe, structured_statuses, status_messages, responses >>
taskVars == << tasks, running >>
auxVars == << healthVars, sent_bodies, taskVars >>

NoPath == "None"
NoAnnotations == [has |-> FALSE, imagekit_url |-> ""]

NoResult ==
    [ kind |-> "pending", exc_type |-> "", msg |-> "", raised_by |-> "", text |-> <<>>,
      value |-> JNull, data |-> "", annotations |-> NoAnnotations ]

\* raise ToolError(msg), for an exception that arose in the step named
Failure(msg, step) ==
    [NoResult EXCEPT !.kind = "error", !.exc_type = "ToolError",
                     !.msg = msg, !.raised_by = step]

AnnotationsAlways(u) == [has |-> TRUE, imagekit_url |-> u.v]

\* `annotations={"imagekit_url": url} if url else None`
Annotations(u) ==
    IF Truthy(u) THEN [has |-> TRUE, imagekit_url |-> u.v] ELSE NoAnnotations

Artifact(data, u) ==
    [NoResult EXCEPT !.kind = "artifact", !.data = data, !.annotations = Annotations(u)]

Report(progress, total) == [progress |-> progress, total |-> total]

\* total_steps of the tools that report progress
TotalSteps(tl, p) ==
    CASE tl \in ChatTools -> 2
      [] tl = "generate_image" ->
            3 + (IF p.save_to_file THEN 1 ELSE 0)
              + (IF p.analyze_image_with_llm THEN 1 ELSE 0)
      [] tl = "edit_image" -> 3 + (IF p.save_to_file THEN 1 ELSE 0)
      [] OTHER -> 0

\* The handlers around a tool's request: `except aiohttp.ClientError` and
\* `except Exception`.
HandlerMsg(tl, exc) ==
    IF exc = "ClientError" THEN ClientErrorMsg[tl] ELSE UnexpectedMsg

\* The classes that derive from BaseException and not from Exception.
BaseExceptionsOnly == {"CancelledError", "KeyboardInterrupt", "SystemExit", "GeneratorExit"}

EntryHandlerCatchesClientErrorOnly(exc) == exc = "ClientError"

\* What `except aiohttp.ClientError` and `except Exception` catch between
\* them: every exception that derives from Exception.
EntryHandlerCatches(exc) == exc \notin BaseExceptionsOnly

RaiseForStatusNever(code) == FALSE

\* response.raise_for_status()
RaiseForStatus(code) == code >= 400

Statuses == {200, 304, 500}
ConnectErrors == {"ClientError", "TimeoutError"}
Endings == {"eof", "ClientError"}
Bodies == {"bytes-1", "bytes-2"}
UploadUrls == {YStr("https://ik.imagekit.io/chutes/Chutes/generated.bin"), YStr("")}
DefaultInferenceSteps == 25

\* --------------------------------------------------------------- the inputs

IkSection(pk, sk, ue) ==
    YMapOf([public_key |-> pk, private_key |-> sk, url_endpoint |-> ue])

RealPublicKey == YStr("public_abc")
RealPrivateKey == YStr("private_abc")
RealUrlEndpoint == YStr("https://ik.imagekit.io/chutes")

IkSections ==
    { IkSection(RealPublicKey, RealPrivateKey, RealUrlEndpoint),
      IkSection(Absent, RealPrivateKey, RealUrlEndpoint),
      IkSection(RealPublicKey, YNull, RealUrlEndpoint),
      IkSection(RealPublicKey, RealPrivateKey, YStr("")),
      IkSection(YStr(PlaceholderPublicKey), RealPrivateKey, RealUrlEndpoint),
      IkSection(RealPublicKey, YStr(PlaceholderPrivateKey), RealUrlEndpoint),
      IkSection(RealPublicKey, RealPrivateKey, YStr(PlaceholderUrlEndpoint)),
      Absent }

TokenValues == { Absent, YNull, YStr(""), YStr("cpk_live_token") }
EndpointValues == { Absent, YStr(""), YStr("https://chutes.example/run") }
ModelValues == { Absent, YStr("model-x"), YDate }

\* The configuration document, as far as the tool tl reads it.
MkConfig(token, tl, endpoint, ik, model) ==
    YMapOf([ chutes |-> YMapOf([ api_token |-> token,
                                 endpoints |-> YMapOf((Capability[tl] :> endpoint)) ]),
             imagekit |-> ik,
             metadata |-> YMapOf([ models |-> YMapOf((Capability[tl] :> model)) ]) ])

InitCommon ==
    /\ pc = "entry"
    /\ result = NoResult
    /\ netlog = <<>>
    /\ reports = <<>>
    /\ status = 0
    /\ stream = <<>>
    /\ ending = "none"
    /\ pos = 0
    /\ full_response = <<>>
    /\ body = ""
    /\ url = YNull
    /\ temp_file_path = NoPath
    /\ disk = {}
    /\ created = {}
    /\ probe = 0
    /\ structured_statuses = <<>>
    /\ status_messages = <<>>
    /\ responses = <<>>
    /\ sent_bodies = <<>>
    /\ tasks = <<>>
    /\ running = 0

InitChat ==
    /\ tool \in ChatTools
    /\ params = [ save_to_file |-> FALSE, analyze_image_with_llm |-> FALSE,
                  num_inference_steps |-> DefaultInferenceSteps ]
    /\ \E token \in TokenValues, endpoint \in EndpointValues :
          config = MkConfig(token, tool, endpoint, Absent, Absent)

InitGen ==
    /\ tool \in GenTools
    /\ \E save \in BOOLEAN,
          analyze \in (IF tool = "generate_image" THEN BOOLEAN ELSE {FALSE}),
          steps \in (IF tool \in {"generate_image", "edit_image"}
                     THEN {DefaultInferenceSteps, MaxInferenceSteps + 1}
                     ELSE {DefaultInferenceSteps}) :
          params = [ save_to_file |-> save, analyze_image_with_llm |-> analyze,
                     num_inference_steps |-> steps ]
    /\ \E token \in TokenValues, endpoint \in EndpointValues,
          ik \in IkSections, model \in ModelValues :
          config = MkConfig(token, tool, endpoint, ik, model)

\* describe_image runs in a server that started, so with the token and the
\* LLM endpoint the constructor of MultimodalLLM requires.
InitDescribe ==
    /\ tool = "describe_image"
    /\ \E images \in UNION { [1..n -> StrImages] : n \in 0..MaxImages } :
          params = [ save_to_file |-> FALSE, analyze_image_with_llm |-> FALSE,
                     num_inference_steps |-> DefaultInferenceSteps,
                     prompt |-> AnalysisPrompt, image_b64s |-> images ]
    /\ config = MkConfig(YStr("cpk_live_token"), "chat", YStr("https://chutes.example/run"),
                         Absent, Absent)

Init == InitCommon /\ (InitChat \/ InitGen \/ InitDescribe)

\* ----------------------------------------------------------------- actions

StepsNeverExceed(tl, p) == FALSE

\* generate_image: `if num_inference_steps > 60:`; no other tool has such
\* a check in its body.
StepsExceed(tl, p) == tl = "generate_image" /\ p.num_inference_steps > MaxInferenceSteps

\* raise ToolError(msg) out of the tool
Fail(msg, step) ==
    /\ pc' = "failed"
    /\ result' = Failure(msg, step)

\* An exception exc raised inside a tool's try block: the handlers turn it
\* into ToolError(msg), and what they do not catch leaves the tool as it is.
FailCaught(msg, exc, step) ==
    IF EntryHandlerCatches(exc)
    THEN Fail(msg, step)
    ELSE /\ pc' = "failed"
         /\ result' = [NoResult EXCEPT !.kind = "error", !.exc_type = exc,
                                        !.raised_by = step]

LastProgress == IF reports = <<>> THEN 0 ELSE reports[Len(reports)].progress

\* The reports a tool makes on entry, before its checks.
EntryReports(tl, p) ==
    IF tl \in {"generate_image", "edit_image"}
    THEN <<Report(0, TotalSteps(tl, p))>>
    ELSE <<>>

\* The reports a tool makes between its checks and its request.
RequestReports(tl, p) ==
    CASE tl \in ChatTools -> <<Report(0, 2), Report(1, 2)>>
      [] tl \in {"generate_image", "edit_image"} -> <<Report(1, TotalSteps(tl, p))>>
      [] OTHER -> <<>>

\* A tool from its entry to its request: the first progress report, the
\* bound check of generate_image, the token check, the endpoint check.
Begin ==
    /\ pc = "entry"
    /\ tool \in ChatTools \cup GenTools
    /\ LET api_token == ConfigGet(config, K_api_token, YNull)
           endpoint == ConfigGet(config, K_endpoint(tool), YNull)
       IN  IF StepsExceed(tool, params)
           THEN Fail(StepsMsg, "checks") /\ reports' = EntryReports(tool, params)
           ELSE IF ConfigCheck(api_token, endpoint) = "token"
           THEN Fail(TokenMsg, "checks") /\ reports' = EntryReports(tool, params)
           ELSE IF ConfigCheck(api_token, endpoint) = "endpoint"
           THEN Fail(EndpointMsg[tool], "checks") /\ reports' = EntryReports(tool, params)
           ELSE /\ pc' = "post"
                /\ result' = result
                /\ reports' = EntryReports(tool, params) \o RequestReports(tool, params)
    /\ UNCHANGED << tool, params, config, netlog, status, body >>
    /\ UNCHANGED streamVars
    /\ UNCHANGED uploadVars
    /\ UNCHANGED auxVars

\* stream_chat: session.post and raise_for_status.
PostStream ==
    /\ pc = "post"
    /\ tool = "stream_chat"
    /\ netlog' = Append(netlog, "POST llm")
    /\ \/ \E exc \in ConnectErrors :
            /\ FailCaught(HandlerMsg(tool, exc), exc, "request")
            /\ UNCHANGED << status, stream >>
       \/ \E code \in Statuses :
            /\ status' = code
            /\ IF RaiseForStatus(code)
               THEN FailCaught(HandlerMsg(tool, "ClientError"), "ClientError", "request") /\ UNCHANGED stream
               ELSE \E lines \in Streams :
                       /\ pc' = "read"
                       /\ result' = result
                       /\ stream' = lines
    /\ UNCHANGED << tool, params, config, reports, ending, pos, full_response, body >>
    /\ UNCHANGED uploadVars
    /\ UNCHANGED auxVars

\* stream_chat: the loop takes the next line of the response.
ReadLine ==
    /\ pc = "read"
    /\ pos < Len(stream)
    /\ LET out == ProcessLine(Bytes(stream[pos + 1]), full_response)
       IN  /\ pos' = pos + 1
           /\ full_response' = out.acc
           /\ CASE out.next = "continue" -> pc' = "read" /\ result' = result
                [] out.next = "break" -> pc' = "finish" /\ result' = result
                [] OTHER -> FailCaught(HandlerMsg(tool, "UnicodeDecodeError"), "UnicodeDecodeError", "stream")
    /\ UNCHANGED << tool, params, config, netlog, reports, status, stream, ending, body >>
    /\ UNCHANGED uploadVars
    /\ UNCHANGED auxVars

\* stream_chat: the lines have run out, by a clean end of the stream or by
\* a broken connection.
StreamEnds ==
    /\ pc = "read"
    /\ pos = Len(stream)
    /\ \E end \in Endings :
          /\ ending' = end
          /\ IF EndOfStream(end) = "finish"
             THEN pc' = "finish" /\ result' = result
             ELSE FailCaught(HandlerMsg(tool, "ClientError"), "ClientError", "stream")
    /\ UNCHANGED << tool, params, config, netlog, reports, status, body >>
    /\ UNCHANGED << stream, pos, full_response >>
    /\ UNCHANGED uploadVars
    /\ UNCHANGED auxVars

\* stream_chat: after the loop, the last report and the return.
StreamFinish ==
    /\ pc = "finish"
    /\ reports' = Append(reports, Report(2, 2))
    /\ result' = [NoResult EXCEPT !.kind = "text", !.text = full_response]
    /\ pc' = "returned"
    /\ UNCHANGED << tool, params, config, netlog, status, body >>
    /\ UNCHANGED streamVars
    /\ UNCHANGED uploadVars
    /\ UNCHANGED auxVars

ChatBodies == { J_answer, J_nochoices, J_nokey, J_nullchoice, J_nullcontent, J_notjson }

\* chat: response_data["choices"][0]["message"]["content"]
ChatContent(response_data) ==
    GetItemKey(GetItemKey(GetItemZero(GetItemKey(response_data, "choices")), "message"), "content")

\* chat: the handlers of its try block.
ChatHandlerMsg(exc) ==
    CASE exc = "ClientError" -> ClientErrorMsg["chat"]
      [] exc \in {"KeyError", "IndexError"} -> ParseMsg
      [] OTHER -> UnexpectedMsg

\* chat: the request, the JSON body and the extraction of the answer.
PostChat ==
    /\ pc = "post"
    /\ tool = "chat"
    /\ netlog' = Append(netlog, "POST llm")
    /\ \/ \E exc \in ConnectErrors :
            FailCaught(ChatHandlerMsg(exc), exc, "request") /\ UNCHANGED << reports, status, body >>
       \/ \E code \in Statuses, doc \in ChatBodies :
            LET response_data == JsonLoads(<<doc>>)
                content == ChatContent(response_data)
            IN  /\ status' = code
                /\ body' = IF RaiseForStatus(code) THEN body ELSE doc
                /\ IF RaiseForStatus(code)
                   THEN FailCaught(ChatHandlerMsg("ClientError"), "ClientError", "request") /\ UNCHANGED reports
                   ELSE IF ~response_data.ok
                   THEN FailCaught(ChatHandlerMsg(response_data.exc), response_data.exc, "request") /\ UNCHANGED reports
                   ELSE /\ reports' = Append(reports, Report(2, 2))
                        /\ IF content.ok
                           THEN /\ pc' = "returned"
                                /\ result' = [NoResult EXCEPT !.kind = "text", !.value = content.val]
                           ELSE FailCaught(ChatHandlerMsg(content.exc), content.exc, "response")
    /\ UNCHANGED << tool, params, config >>
    /\ UNCHANGED streamVars
    /\ UNCHANGED uploadVars
    /\ UNCHANGED auxVars

AskClientErrorMsg == "Error calling Chutes LLM API: "
AskParseMsg == "Error parsing response from Chutes LLM API: "

\* ask_with_images: the handlers of its try block.
AskHandlerMsg(exc) ==
    CASE exc = "ClientError" -> AskClientErrorMsg
      [] exc \in {"KeyError", "IndexError"} -> AskParseMsg
      [] OTHER -> UnexpectedMsg

\* ask_with_images raising out of its try block on the exception exc.
AskRaised(exc) ==
    [ ok |-> FALSE, val |-> JNull,
      exc |-> IF EntryHandlerCatches(exc) THEN "ToolError" ELSE exc,
      msg |-> IF EntryHandlerCatches(exc) THEN AskHandlerMsg(exc) ELSE "" ]

\* ask_with_images from the response on: raise_for_status, response.json()
\* and the extraction of the answer.
AskAnswer(code, doc) ==
    LET response_data == JsonLoads(<<doc>>)
        content == ChatContent(response_data)
    IN  IF RaiseForStatus(code) THEN AskRaised("ClientError")
        ELSE IF ~response_data.ok THEN AskRaised(response_data.exc)
        ELSE IF ~content.ok THEN AskRaised(content.exc)
        ELSE [ok |-> TRUE, val |-> content.val, exc |-> "none", msg |-> ""]

\* A generation tool once the upload step is over (or was not taken), with
\* the response bytes data, the upload's return value u and the reports
\* made so far: the captioning step of generate_image, or the return.
Continue(data, u, made) ==
    IF tool = "generate_image" /\ CaptionWanted(params)
    THEN /\ pc' = "caption"
         /\ result' = result
         /\ reports' = Append(made, Report(made[Len(made)].progress + 1,
                                           TotalSteps(tool, params)))
    ELSE /\ pc' = "returned"
         /\ result' = Artifact(data, u)
         /\ reports' = IF tool \in ContextTools
                       THEN Append(made, Report(TotalSteps(tool, params),
                                                TotalSteps(tool, params)))
                       ELSE made

\* A generation tool: the request, raise_for_status, response.read(), and
\* on to the upload call when save_to_file is set.
PostGenerate ==
    /\ pc = "post"
    /\ tool \in GenTools
    /\ netlog' = Append(netlog, "POST " \o Capability[tool])
    /\ \/ \E exc \in ConnectErrors :
            FailCaught(HandlerMsg(tool, exc), exc, "request") /\ UNCHANGED << reports, status, body >>
       \/ \E code \in Statuses :
            /\ RaiseForStatus(code)
            /\ status' = code
            /\ FailCaught(HandlerMsg(tool, "ClientError"), "ClientError", "request")
            /\ UNCHANGED << reports, body >>
       \/ \E code \in Statuses, exc \in ConnectErrors :
            /\ ~RaiseForStatus(code)
            /\ status' = code
            /\ FailCaught(HandlerMsg(tool, exc), exc, "response")
            /\ UNCHANGED << reports, body >>
       \/ \E code \in Statuses, data \in Bodies :
            /\ ~RaiseForStatus(code)
            /\ status' = code
            /\ body' = data
            /\ LET received == IF tool \in ContextTools
                               THEN Append(reports, Report(LastProgress + 1,
                                                           TotalSteps(tool, params)))
                               ELSE reports
               IN  IF ShouldUpload(params)
                   THEN /\ pc' = "upload_prepare"
                        /\ result' = result
                        /\ reports' = IF tool \in ContextTools
                                      THEN Append(received,
                                                  Report(LastProgress + 2,
                                                         TotalSteps(tool, params)))
                                      ELSE received
                   ELSE Continue(data, YNull, received)
    /\ UNCHANGED << tool, params, config >>
    /\ UNCHANGED streamVars
    /\ UNCHANGED uploadVars
    /\ UNCHANGED auxVars

\* upload_to_imagekit, lines 29-43: the client, the metadata.
UploadPrepare ==
    /\ pc = "upload_prepare"
    /\ IF NoImagekitInstance(config)
       THEN Continue(body, YNull, reports)
       ELSE IF JsonDumpsRaises(FilterNone(Metadata(config, tool)))
       THEN FailCaught(HandlerMsg(tool, "TypeError"), "TypeError", "upload_to_imagekit") /\ UNCHANGED reports
       ELSE pc' = "upload_write" /\ UNCHANGED << result, reports >>
    /\ UNCHANGED << tool, params, config, netlog, status, body >>
    /\ UNCHANGED streamVars
    /\ UNCHANGED uploadVars
    /\ UNCHANGED auxVars

\* upload_to_imagekit, lines 48-51: the temporary file is created, the
\* payload written, the name kept, the file closed.
UploadWriteTemp ==
    /\ pc = "upload_write"
    /\ LET name == FreshTempPath(disk) IN
       \/ \* NamedTemporaryFile raises: no file
          /\ pc' = "upload_finally"
          /\ UNCHANGED << temp_file_path, disk, created >>
       \/ \* temp_file.write raises: the file exists, the name is not kept
          /\ pc' = "upload_finally"
          /\ disk' = disk \cup {name}
          /\ created' = created \cup {name}
          /\ UNCHANGED temp_file_path
       \/ \* closing the file raises: the name is kept
          /\ pc' = "upload_finally"
          /\ disk' = disk \cup {name}
          /\ created' = created \cup {name}
          /\ temp_file_path' = name
       \/ /\ pc' = "upload_send"
          /\ disk' = disk \cup {name}
          /\ created' = created \cup {name}
          /\ temp_file_path' = name
    /\ UNCHANGED << tool, params, config, result, netlog, reports, status, body, url >>
    /\ UNCHANGED streamVars
    /\ UNCHANGED auxVars

\* upload_to_imagekit, lines 53-66: the file is reopened and uploaded.
UploadSend ==
    /\ pc = "upload_send"
    /\ pc' = "upload_finally"
    /\ \/ \* open raises
          UNCHANGED << netlog, url >>
       \/ \* imagekit.upload raises
          /\ netlog' = Append(netlog, "imagekit.upload")
          /\ UNCHANGED url
       \/ \E u \in UploadUrls :
          /\ netlog' = Append(netlog, "imagekit.upload")
          /\ url' = u
    /\ UNCHANGED << tool, params, config, result, reports, status, body, temp_file_path, disk, created >>
    /\ UNCHANGED streamVars
    /\ UNCHANGED auxVars

\* upload_to_imagekit, lines 67-74: the handler returns None, the finally
\* block removes the file whose name was kept; the tool goes on.
UploadFinally ==
    /\ pc = "upload_finally"
    /\ disk' = IF temp_file_path # NoPath /\ temp_file_path \in disk
               THEN disk \ {temp_file_path}
               ELSE disk
    /\ Continue(body, url, reports)
    /\ UNCHANGED << tool, params, config, netlog, status, body, url, temp_file_path, created >>
    /\ UNCHANGED streamVars
    /\ UNCHANGED auxVars

\* generate_image: the captioning call and the return.
Caption ==
    /\ pc = "caption"
    /\ netlog' = Append(netlog, "POST llm")
    /\ sent_bodies' = Append(sent_bodies, AskBody(AnalysisPrompt, <<ImageBytes(body)>>))
    /\ \/ \E exc \in ConnectErrors :
            /\ FailCaught(HandlerMsg(tool, AskRaised(exc).exc), AskRaised(exc).exc,
                          "ask_with_images")
            /\ UNCHANGED reports
       \/ \E code \in Statuses, doc \in ChatBodies :
            LET llm_analysis == AskAnswer(code, doc)
            IN  IF llm_analysis.ok
                THEN /\ pc' = "returned"
                     /\ result' = [Artifact(body, url) EXCEPT !.value = llm_analysis.val]
                     /\ reports' = Append(reports, Report(TotalSteps(tool, params),
                                                          TotalSteps(tool, params)))
                ELSE /\ FailCaught(HandlerMsg(tool, llm_analysis.exc), llm_analysis.exc,
                                   "ask_with_images")
                     /\ UNCHANGED reports
    /\ UNCHANGED << tool, params, config, status, body >>
    /\ UNCHANGED streamVars
    /\ UNCHANGED uploadVars
    /\ UNCHANGED healthVars
    /\ UNCHANGED taskVars

\* describe_image up to its try block: the first report and the check of
\* the list of images.
DescribeBegin ==
    /\ pc = "entry"
    /\ tool = "describe_image"
    /\ IF params.image_b64s = <<>>
       THEN /\ Fail(NoImagesMsg, "checks")
            /\ reports' = <<Report(0, DescribeTotalSteps)>>
       ELSE /\ pc' = "ask"
            /\ result' = result
            /\ reports' = <<Report(0, DescribeTotalSteps), Report(1, DescribeTotalSteps)>>
    /\ UNCHANGED << tool, params, config, netlog, status, body >>
    /\ UNCHANGED streamVars
    /\ UNCHANGED uploadVars
    /\ UNCHANGED auxVars

\* describe_image: the call of ask_with_images, the last report and the
\* return, or the handler of its try block.
DescribeAsk ==
    /\ pc = "ask"
    /\ tool = "describe_image"
    /\ netlog' = Append(netlog, "POST llm")
    /\ sent_bodies' = Append(sent_bodies, AskBody(params.prompt, params.image_b64s))
    /\ \/ \E exc \in ConnectErrors :
            /\ FailCaught(UnexpectedMsg, AskRaised(exc).exc, "ask_with_images")
            /\ UNCHANGED << reports, status >>
       \/ \E code \in Statuses, doc \in ChatBodies :
            LET llm_description == AskAnswer(code, doc)
            IN  /\ status' = code
                /\ IF llm_description.ok
                   THEN /\ pc' = "returned"
                        /\ result' = [NoResult EXCEPT !.kind = "text",
                                                      !.value = llm_description.val]
                        /\ reports' = Append(reports, Report(2, DescribeTotalSteps))
                   ELSE /\ FailCaught(UnexpectedMsg, llm_description.exc, "ask_with_images")
                        /\ UNCHANGED reports
    /\ UNCHANGED << tool, params, config, body >>
    /\ UNCHANGED streamVars
    /\ UNCHANGED uploadVars
    /\ UNCHANGED healthVars
    /\ UNCHANGED taskVars

Next ==
    \/ Begin
    \/ PostStream
    \/ ReadLine
    \/ StreamEnds
    \/ StreamFinish
    \/ PostChat
    \/ PostGenerate
    \/ UploadPrepare
    \/ UploadWriteTemp
    \/ UploadSend
    \/ UploadFinally
    \/ Caption
    \/ DescribeBegin
    \/ DescribeAsk

Spec == Init /\ [][Next]_vars

\* ------------------------------------------------------ Config.get, called

\* A dotted key as its caller writes it: the segments joined by dots.
RECURSIVE JoinDot(_)
JoinDot(segs) ==
    LET first == IF Head(segs) = "" THEN <<>> ELSE <<Head(segs)>> IN
    IF Len(segs) = 1 THEN first ELSE first \o <<".">> \o JoinDot(Tail(segs))

\* Configuration documents: a nested mapping with a scalar, a list, a string
\* and a null inside it, and roots that are null, empty, a list, a string.
D_nested ==
    YMap([ a |-> YMap([ b |-> YMap([ c |-> YNum(5) ]),
                        l |-> YList(<<YNum(1)>>),
                        s |-> YStr("text"),
                        n |-> YNull ]) ])
D_flat == YMap([ a |-> YNum(7) ])
D_list == YList(<<YStr("a")>>)
D_string == YStr("a")

GetDocs == { D_nested, D_flat, D_list, D_string, YNull }

GetKeys ==
    { <<"a", "b", "c">>, <<"a", "b">>, <<"a", "n">>, <<"a">>, <<"a", "x">>,
      <<"a", "b", "c", "d">>, <<"a", "s", "x">>, <<"a", "l", "x">>,
      <<"a", "n", "x">>, <<"">>, <<"a", "", "b">>, <<"x", "y">> }

GetDefaults == { YNull, YStr("fallback") }

InitConfigGet ==
    /\ InitCommon
    /\ tool = "Config.get"
    /\ \E doc \in GetDocs, key \in GetKeys, default \in GetDefaults :
          /\ config = doc
          /\ params = [key |-> key, default |-> default]

\* config.get(key, default)
ConfigGetCall ==
    /\ pc = "entry"
    /\ tool = "Config.get"
    /\ LET out == ConfigGetOutcome(config, JoinDot(params.key), params.default)
       IN  IF out.ok
           THEN /\ pc' = "returned"
                /\ result' = [NoResult EXCEPT !.kind = "value", !.value = out.val]
           ELSE /\ pc' = "failed"
                /\ result' = [NoResult EXCEPT !.kind = "error", !.exc_type = out.exc,
                                              !.raised_by = "Config.get"]
    /\ UNCHANGED << tool, params, config, netlog, reports, status, body >>
    /\ UNCHANGED streamVars
    /\ UNCHANGED uploadVars
    /\ UNCHANGED auxVars

SpecConfigGet == InitConfigGet /\ [][ConfigGetCall]_vars

\* --------------------------------------------------------- check_mcp_status

McpComponent == "MCP Server Instance"
QuotaComponent == "Quota Usage API"

\* endpoints_to_check, in the order the dict is written.
EndpointsToCheck ==
    << [name |-> "LLM", key |-> "llm"],
       [name |-> "Text to Image", key |-> "text_to_image"],
       [name |-> "Text to Music", key |-> "text_to_music"],
       [name |-> "Image to Image", key |-> "image_to_image"],
       [name |-> "Text to Video", key |-> "text_to_video"],
       [name |-> "Image to Video", key |-> "image_to_video"],
       [name |-> "Image to Video Fast", key |-> "image_to_video_fast"] >>

\* The loop position after the last endpoint: the quota check.
QuotaIndex == Len(EndpointsToCheck) + 1

K_check_endpoint(i) == <<"chutes", ".", "endpoints", ".", EndpointsToCheck[i].key>>

\* The component the loop position i stands for, and what it probes.
ComponentAt(i) == IF i = QuotaIndex THEN QuotaComponent ELSE EndpointsToCheck[i].name
KindAt(i) == IF i = QuotaIndex THEN "quota" ELSE "endpoint"

\* `if url:` for an endpoint, `if api_token:` for the quota check.
GateAt(cfg, i) ==
    IF i = QuotaIndex
    THEN ConfigGet(cfg, K_api_token, YNull)
    ELSE ConfigGet(cfg, K_check_endpoint(i), YNull)

\* bool(mcp)
McpObject == TRUE

Entry(component, st) == [component |-> component, status |-> st]

\* What a probe can meet with: a response with a status (and, read only by
\* the quota check on a 200, a body that is JSON or not), or an exception.
Answer(code, content) == [status |-> code, exc |-> "none", body |-> content]
Broken(exc) == [status |-> 0, exc |-> exc, body |-> "-"]

EndpointStatuses == {200, 400}
QuotaStatuses == {200, 400, 500}
ProbeErrors == {"ClientError", "TimeoutError"}

ProbeOutcomes(kind) ==
    { Broken(e) : e \in ProbeErrors }
    \cup (IF kind = "quota"
          THEN { Answer(200, "json"), Answer(200, "notjson") }
               \cup { Answer(code, "-") : code \in QuotaStatuses \ {200} }
          ELSE { Answer(code, "-") : code \in EndpointStatuses })

\* The one status every probe would take for a success.
ExpectedStatusAlwaysOk(kind) == 200

\* `response.status == 400` for an endpoint, `== 200` for the quota check.
ExpectedStatus(kind) == IF kind = "quota" THEN 200 ELSE 400

\* A loop whose handlers let a timeout through.
ProbeErrorEscapesTimeout(exc) == exc = "TimeoutError"

\* `except aiohttp.ClientError` and `except Exception` around each probe.
ProbeErrorEscapes(exc) == FALSE

\* The status a probe's entry gets (lines 62-79 and 90-108).
ProbeEntryStatus(kind, outcome) ==
    IF outcome.exc # "none" THEN "ERROR"
    ELSE IF outcome.status # ExpectedStatus(kind) THEN "WARNING"
    ELSE IF kind = "quota" /\ outcome.body = "notjson" THEN "ERROR"
    ELSE "SUCCESS"

\* A line of the text: the level it opens with and the component it is about.
\* The line for the server object is its details, which open with no level.
StatusLine(component, st) ==
    [ level |-> IF component = McpComponent THEN "" ELSE st, about |-> component ]

\* A check whose text mentions only what went wrong.
MessagesForProblems(component, st) ==
    IF st \in {"WARNING", "ERROR"} THEN << StatusLine(component, st) >> ELSE <<>>

\* `status_messages.append(...)`: one line in every branch.
MessagesFor(component, st) == << StatusLine(component, st) >>

\* A loop that makes no entry for what it does not probe.
NoEntries(component) == <<>>

\* The else branch of a probe: the entry of a component that is not probed.
InfoEntries(component) == << Entry(component, "INFO") >>

\* The chutes section with the endpoints given position by position.
MkCheckConfig(token, urls) ==
    YMapOf([ chutes |-> YMapOf([ api_token |-> token,
                                 endpoints |-> YMapOf(
                                    [k \in {EndpointsToCheck[i].key : i \in DOMAIN EndpointsToCheck}
                                       |-> urls[CHOOSE i \in DOMAIN EndpointsToCheck :
                                                    EndpointsToCheck[i].key = k]]) ]) ])

SetUrl == YStr("https://chutes.example/run")

\* Configurations: all endpoints set, none, only the first, a mixture.
CheckConfigs ==
    { MkCheckConfig(YStr("cpk_live_token"), [i \in 1..7 |-> SetUrl]),
      MkCheckConfig(Absent, [i \in 1..7 |-> Absent]),
      MkCheckConfig(YStr(""), [i \in 1..7 |-> IF i = 1 THEN SetUrl ELSE YStr("")]),
      MkCheckConfig(YStr("cpk_live_token"), [i \in 1..7 |-> YNull]),
      MkCheckConfig(YNull,
                    <<Absent, SetUrl, YStr(""), SetUrl, YNull, Absent, SetUrl>>) }

InitCheck ==
    /\ InitCommon
    /\ tool = "check_mcp_status"
    /\ params = [none |-> TRUE]
    /\ config \in CheckConfigs

checkFrame ==
    << tool, params, config, reports, status, body, streamVars, uploadVars,
       sent_bodies, taskVars >>

\* Lines 25-39: the entry for the server object itself.
CheckBegin ==
    /\ pc = "entry"
    /\ tool = "check_mcp_status"
    /\ structured_statuses' =
          << Entry(McpComponent, IF McpObject THEN "SUCCESS" ELSE "ERROR") >>
    /\ status_messages' =
          MessagesFor(McpComponent, IF McpObject THEN "SUCCESS" ELSE "ERROR")
    /\ probe' = 1
    /\ pc' = "check_loop"
    /\ UNCHANGED << result, netlog, responses >>
    /\ UNCHANGED checkFrame

\* The head of one probe: the request goes out if the url (the token, for the
\* quota check) is set; otherwise the INFO entry is made and the loop moves on.
CheckProbe ==
    /\ pc = "check_loop"
    /\ probe <= QuotaIndex
    /\ IF Truthy(GateAt(config, probe))
       THEN /\ netlog' = Append(netlog, "GET " \o ComponentAt(probe))
            /\ pc' = "check_wait"
            /\ UNCHANGED << probe, structured_statuses, status_messages >>
       ELSE /\ structured_statuses' = structured_statuses \o InfoEntries(ComponentAt(probe))
            /\ status_messages' =
                  status_messages \o MessagesFor(ComponentAt(probe), "INFO")
            /\ probe' = probe + 1
            /\ UNCHANGED << pc, netlog >>
    /\ UNCHANGED << result, responses >>
    /\ UNCHANGED checkFrame

\* The request in flight ends, with a response or an exception.
CheckResponse ==
    /\ pc = "check_wait"
    /\ \E outcome \in ProbeOutcomes(KindAt(probe)) :
          /\ responses' = Append(responses, [component |-> ComponentAt(probe),
                                             outcome |-> outcome])
          /\ IF outcome.exc # "none" /\ ProbeErrorEscapes(outcome.exc)
             THEN /\ pc' = "failed"
                  /\ result' = [NoResult EXCEPT !.kind = "error",
                                                !.exc_type = outcome.exc,
                                                !.raised_by = "check_mcp_status"]
                  /\ UNCHANGED << probe, structured_statuses, status_messages >>
             ELSE /\ structured_statuses' =
                        Append(structured_statuses,
                               Entry(ComponentAt(probe),
                                     ProbeEntryStatus(KindAt(probe), outcome)))
                  /\ status_messages' =
                        status_messages \o
                           MessagesFor(ComponentAt(probe),
                                       ProbeEntryStatus(KindAt(probe), outcome))
                  /\ probe' = probe + 1
                  /\ pc' = "check_loop"
                  /\ result' = result
    /\ UNCHANGED netlog
    /\ UNCHANGED checkFrame

\* Lines 116-121: return ToolResult(..., structured_content={"checks": ...})
CheckReturn ==
    /\ pc = "check_loop"
    /\ probe > QuotaIndex
    /\ pc' = "returned"
    /\ result' = [NoResult EXCEPT !.kind = "checks", !.value = structured_statuses,
                                  !.text = status_messages]
    /\ UNCHANGED << netlog, probe, structured_statuses, status_messages, responses >>
    /\ UNCHANGED checkFrame

NextCheck == CheckBegin \/ CheckProbe \/ CheckResponse \/ CheckReturn

SpecCheck == InitCheck /\ [][NextCheck]_vars

\* ------------------------------------------------- ask_with_images, called

\* A call of ask_with_images on a started server: any list of images.
InitAsk ==
    /\ InitCommon
    /\ tool = "ask_with_images"
    /\ \E images \in UNION { [1..n -> ImageKinds] : n \in 0..MaxImages } :
          params = [prompt |-> AnalysisPrompt, images |-> images]
    /\ config = MkConfig(YStr("cpk_live_token"), "chat", YStr("https://chutes.example/run"),
                         Absent, Absent)

askFrame ==
    << tool, params, config, reports, stream, ending, pos, full_response, body,
       url, temp_file_path, disk, created, healthVars, taskVars >>

\* Lines 33-72: the messages, the body, and the request is sent.
AskSend ==
    /\ pc = "entry"
    /\ pc' = "ask_wait"
    /\ sent_bodies' = Append(sent_bodies, AskBody(params.prompt, params.images))
    /\ netlog' = Append(netlog, "POST llm")
    /\ UNCHANGED << result, status >>
    /\ UNCHANGED askFrame

\* Lines 73-86: the response, or the failure of the request.
AskReceive ==
    /\ pc = "ask_wait"
    /\ \/ \E exc \in ConnectErrors :
            /\ pc' = "failed"
            /\ result' = [NoResult EXCEPT !.kind = "error", !.exc_type = AskRaised(exc).exc,
                                           !.msg = AskRaised(exc).msg,
                                           !.raised_by = "request"]
            /\ UNCHANGED status
       \/ \E code \in Statuses, doc \in ChatBodies :
            LET answer == AskAnswer(code, doc)
            IN  /\ status' = code
                /\ IF answer.ok
                   THEN /\ pc' = "returned"
                        /\ result' = [NoResult EXCEPT !.kind = "text", !.value = answer.val]
                   ELSE /\ pc' = "failed"
                        /\ result' = [NoResult EXCEPT !.kind = "error",
                                                      !.exc_type = answer.exc,
                                                      !.msg = answer.msg,
                                                      !.raised_by = "response"]
    /\ UNCHANGED << netlog, sent_bodies >>
    /\ UNCHANGED askFrame

NextAsk == AskSend \/ AskReceive

SpecAsk == InitAsk /\ [][NextAsk]_vars

\* ---------------------------------------------------- concurrent invocations

\* The longest stream a concurrent stream_chat is answered with.
MaxTaskLines == 2

\* The invocations in progress at once, on the one event loop.
TaskIds == {1, 2}
TaskTools == {"stream_chat", "generate_image"}
TaskLineKinds == { L_He, L_llo, L_done }
TaskStreams == UNION { [1..n -> TaskLineKinds] : n \in 0..MaxTaskLines }

\* The locals of one invocation: those of stream_chat, and those of the
\* upload_to_imagekit call of a generate_image with save_to_file set; with
\* them the files it created, opened and removed.
NewTask(tl) ==
    [ tool |-> tl, pc |-> "entry", stream |-> <<>>, pos |-> 0, full_response |-> <<>>,
      result |-> <<>>, temp_file_path |-> NoPath, created |-> {}, opened |-> {},
      removed |-> {} ]

InitTasks ==
    /\ tool = "concurrent"
    /\ params = [ save_to_file |-> TRUE, analyze_image_with_llm |-> FALSE,
                  num_inference_steps |-> DefaultInferenceSteps ]
    /\ config = MkConfig(YStr("cpk_live_token"), "generate_image",
                         YStr("https://chutes.example/run"),
                         IkSection(RealPublicKey, RealPrivateKey, RealUrlEndpoint),
                         YStr("model-x"))
    /\ pc = "serving"
    /\ result = NoResult
    /\ netlog = <<>>
    /\ reports = <<>>
    /\ status = 0
    /\ stream = <<>>
    /\ ending = "none"
    /\ pos = 0
    /\ full_response = <<>>
    /\ body = ""
    /\ url = YNull
    /\ temp_file_path = NoPath
    /\ disk = {}
    /\ created = {}
    /\ probe = 0
    /\ structured_statuses = <<>>
    /\ status_messages = <<>>
    /\ responses = <<>>
    /\ sent_bodies = <<>>
    /\ tasks \in { [t \in TaskIds |-> NewTask(tools[t])] : tools \in [TaskIds -> TaskTools] }
    /\ running = 0

tasksFrame ==
    << tool, params, config, pc, result, netlog, reports, status, stream, ending, pos,
       full_response, body, url, temp_file_path, created, healthVars, sent_bodies >>

\* `async with session.post(...)`: the request is sent and the task waits.
TaskPost(t) ==
    /\ running = 0
    /\ tasks[t].pc = "entry"
    /\ tasks' = [tasks EXCEPT ![t].pc = "post_wait"]
    /\ UNCHANGED << disk, running >>
    /\ UNCHANGED tasksFrame

\* The response arrives: the request failed, or the stream opens, or the
\* image was read and the upload is next.
TaskResponse(t) ==
    /\ running = 0
    /\ tasks[t].pc = "post_wait"
    /\ \/ tasks' = [tasks EXCEPT ![t].pc = "failed"]
       \/ /\ tasks[t].tool = "stream_chat"
          /\ \E lines \in TaskStreams :
                tasks' = [tasks EXCEPT ![t].pc = "read", ![t].stream = lines]
       \/ /\ tasks[t].tool = "generate_image"
          /\ tasks' = [tasks EXCEPT ![t].pc = "upload"]
    /\ UNCHANGED << disk, running >>
    /\ UNCHANGED tasksFrame

\* stream_chat: the next line arrives and the loop body runs on it.
TaskReadLine(t) ==
    /\ running = 0
    /\ tasks[t].pc = "read"
    /\ tasks[t].pos < Len(tasks[t].stream)
    /\ LET out == ProcessLine(Bytes(tasks[t].stream[tasks[t].pos + 1]),
                              tasks[t].full_response)
       IN  tasks' = [tasks EXCEPT
                        ![t].pos = @ + 1,
                        ![t].full_response = out.acc,
                        ![t].result = IF out.next = "break" THEN out.acc ELSE @,
                        ![t].pc = CASE out.next = "continue" -> "read"
                                    [] out.next = "break" -> "returned"
                                    [] OTHER -> "failed"]
    /\ UNCHANGED << disk, running >>
    /\ UNCHANGED tasksFrame

\* stream_chat: the lines have run out.
TaskStreamEnds(t) ==
    /\ running = 0
    /\ tasks[t].pc = "read"
    /\ tasks[t].pos = Len(tasks[t].stream)
    /\ \E end \in Endings :
          tasks' = IF EndOfStream(end) = "finish"
                   THEN [tasks EXCEPT ![t].pc = "returned",
                                      ![t].result = tasks[t].full_response]
                   ELSE [tasks EXCEPT ![t].pc = "failed"]
    /\ UNCHANGED << disk, running >>
    /\ UNCHANGED tasksFrame

\* generate_image calls upload_to_imagekit, a plain function: the temporary
\* file is written and imagekit.upload is called without an await, so the
\* task keeps the event loop while the upload is under way.
TaskUploadBegin(t) ==
    /\ running = 0
    /\ tasks[t].pc = "upload"
    /\ LET name == FreshTempPath(disk) IN
       \/ \* temp_file.write raises: the file stays, the function returns None
          /\ disk' = disk \cup {name}
          /\ tasks' = [tasks EXCEPT ![t].pc = "returned",
                                    ![t].created = @ \cup {name}]
          /\ UNCHANGED running
       \/ /\ disk' = disk \cup {name}
          /\ tasks' = [tasks EXCEPT ![t].pc = "uploading",
                                    ![t].created = @ \cup {name},
                                    ![t].temp_file_path = name,
                                    ![t].opened = @ \cup {name}]
          /\ running' = t
    /\ UNCHANGED tasksFrame

\* imagekit.upload returns or raises; the finally block removes the file
\* and the function returns to the tool, which returns the image.
TaskUploadEnd(t) ==
    /\ running = t
    /\ tasks[t].pc = "uploading"
    /\ disk' = disk \ {tasks[t].temp_file_path}
    /\ tasks' = [tasks EXCEPT ![t].pc = "returned",
                              ![t].removed = @ \cup ({tasks[t].temp_file_path} \cap disk)]
    /\ running' = 0
    /\ UNCHANGED tasksFrame

NextTasks ==
    \E t \in TaskIds :
        \/ TaskPost(t)
        \/ TaskResponse(t)
        \/ TaskReadLine(t)
        \/ TaskStreamEnds(t)
        \/ TaskUploadBegin(t)
        \/ TaskUploadEnd(t)

SpecTasks == InitTasks /\ [][NextTasks]_vars

\* ---------------------------------------------- upload_to_imagekit, called

MetadataValues ==
    { YNull, YStr(""), YStr("a red fox"), YNum(0), YNum(7), YBool(FALSE), YDate }

\* A call of upload_to_imagekit with usable credentials and any metadata.
InitUpload ==
    /\ InitCommon
    /\ tool = "upload_to_imagekit"
    /\ \E model \in MetadataValues, prompt \in MetadataValues, seed \in MetadataValues :
          params = [ save_to_file |-> TRUE, analyze_image_with_llm |-> FALSE,
                     num_inference_steps |-> DefaultInferenceSteps,
                     metadata |-> [model |-> model, prompt |-> prompt, seed |-> seed] ]
    /\ config = MkConfig(YStr("cpk_live_token"), "generate_image",
                         YStr("https://chutes.example/run"),
                         IkSection(RealPublicKey, RealPrivateKey, RealUrlEndpoint),
                         Absent)

\* Lines 29-38: the client, the filter, json.dumps, request_metadata.
UploadCallPrepare ==
    /\ pc = "entry"
    /\ IF NoImagekitInstance(config)
       THEN pc' = "returned" /\ result' = Artifact(body, YNull)
       ELSE IF JsonDumpsRaises(FilterNone(params.metadata))
       THEN /\ pc' = "failed"
            /\ result' = [NoResult EXCEPT !.kind = "error", !.exc_type = "TypeError",
                                           !.raised_by = "upload_to_imagekit"]
       ELSE pc' = "upload_write" /\ UNCHANGED result
    /\ UNCHANGED << tool, params, config, netlog, reports, status, body >>
    /\ UNCHANGED streamVars
    /\ UNCHANGED uploadVars
    /\ UNCHANGED auxVars

\* Lines 53-66: the file is reopened and uploaded with request_metadata as
\* its custom metadata.
UploadCallSend ==
    /\ pc = "upload_send"
    /\ pc' = "upload_finally"
    /\ \/ \* open raises
          UNCHANGED << netlog, url, sent_bodies >>
       \/ \* imagekit.upload raises
          /\ netlog' = Append(netlog, "imagekit.upload")
          /\ sent_bodies' = Append(sent_bodies,
                                   [custom_metadata |-> RequestMetadata(params.metadata)])
          /\ UNCHANGED url
       \/ \E u \in UploadUrls :
          /\ netlog' = Append(netlog, "imagekit.upload")
          /\ sent_bodies' = Append(sent_bodies,
                                   [custom_metadata |-> RequestMetadata(params.metadata)])
          /\ url' = u
    /\ UNCHANGED << tool, params, config, result, reports, status, body, temp_file_path, disk, created >>
    /\ UNCHANGED streamVars
    /\ UNCHANGED healthVars
    /\ UNCHANGED taskVars

NextUpload == UploadCallPrepare \/ UploadWriteTemp \/ UploadCallSend \/ UploadFinally

SpecUpload == InitUpload /\ [][NextUpload]_vars

\* ------------------------------------------------------ start.py, start-up

K_logging_level == <<"logging", ".", "level">>

\* What config.yaml holds once its placeholders are resolved, as far as
\* start-up and the tools called afterwards read it.
StartConfig(token, llm, text_to_image, level) ==
    YMapOf([ chutes |-> YMapOf([ api_token |-> token,
                                 endpoints |-> YMapOf([ llm |-> llm,
                                                        text_to_image |-> text_to_image ]) ]),
             logging |-> YMapOf([ level |-> level ]) ])

LevelValues == { Absent, YStr("DEBUG"), YNull }

\* The documents: the mappings above, and the empty file, which loads as null.
StartDocuments ==
    { StartConfig(token, llm, t2i, level) :
        token \in TokenValues, llm \in EndpointValues,
        t2i \in {Absent, SetUrl}, level \in LevelValues }
    \cup { YNull }

\* config.yaml as open() and yaml.safe_load find it.
ConfigFiles == { "readable", "missing", "invalid" }

\* MCP_PORT as the environment gives it.
PortValues == { "8000", "eighty" }

\* The tools a client may call once the server listens.
ServedTools == { "stream_chat", "chat", "generate_image", "check_mcp_status" }

\* config before src.config has been imported.
Unloaded == [t |-> "unloaded", v |-> ""]

ListenCall == "LISTEN http"

StartupConstructor == "MultimodalLLM.__init__"

\* A constructor that only stores what it reads.
ConstructorAccepts(api_token, llm_endpoint) == "ok"

\* MultimodalLLM.__init__: `if not self.api_token: raise`, then
\* `if not self.llm_endpoint: raise`.
ConstructorCheck(api_token, llm_endpoint) ==
    IF ~Truthy(api_token) THEN "token"
    ELSE IF ~Truthy(llm_endpoint) THEN "endpoint"
    ELSE "ok"

\* `.upper()` on the configured logging level (config.py line 73).
UpperRaises(level) == level.t # "str"

\* int(os.getenv("MCP_PORT", "8000"))
IntRaises(text) == text # "8000"

\* The `except Exception` of start.py: the exception is logged, nothing is
\* raised again, and the script ends without mcp.run.
Abandon(exc, msg, step) ==
    /\ pc' = "abandoned"
    /\ result' = [NoResult EXCEPT !.kind = "error", !.exc_type = exc, !.msg = msg,
                                  !.raised_by = step]

InitStart ==
    /\ InitCommon
    /\ tool = "start.py"
    /\ config = Unloaded
    /\ \E file \in ConfigFiles, document \in StartDocuments, port \in PortValues :
          params = [ config_file |-> file, document |-> document, port |-> port ]

startFrame ==
    << reports, status, body, streamVars, uploadVars, auxVars >>

\* The first import of src.config, reached from `from src.app import mcp`:
\* Config() reads and parses the file, then configures logging.
StartLoadConfig ==
    /\ tool = "start.py"
    /\ pc = "entry"
    /\ IF params.config_file = "missing"
       THEN Abandon("FileNotFoundError", "", "Config._load_config") /\ config' = config
       ELSE IF params.config_file = "invalid"
       THEN Abandon("YAMLError", "", "Config._load_config") /\ config' = config
       ELSE IF UpperRaises(ConfigGet(params.document, K_logging_level, YStr("INFO")))
       THEN Abandon("AttributeError", "", "Config._configure_logging") /\ config' = config
       ELSE /\ config' = params.document
            /\ pc' = "construct"
            /\ result' = result
    /\ UNCHANGED << tool, params, netlog >>
    /\ UNCHANGED startFrame

\* mcp_instance.py: FastMCP(...) and MultimodalLLM().
StartConstruct ==
    /\ tool = "start.py"
    /\ pc = "construct"
    /\ LET checked == ConstructorCheck(ConfigGet(config, K_api_token, YNull),
                                       ConfigGet(config, K_endpoint("chat"), YNull))
       IN  IF checked = "token"
           THEN Abandon("ToolError", TokenMsg, StartupConstructor)
           ELSE IF checked = "endpoint"
           THEN Abandon("ToolError", EndpointMsg["chat"], StartupConstructor)
           ELSE pc' = "configure" /\ result' = result
    /\ UNCHANGED << tool, params, config, netlog >>
    /\ UNCHANGED startFrame

\* app.py imports the tool modules; start.py reads the host and the port.
StartConfigure ==
    /\ tool = "start.py"
    /\ pc = "configure"
    /\ IF IntRaises(params.port)
       THEN Abandon("ValueError", "", "start.py")
       ELSE pc' = "run" /\ result' = result
    /\ UNCHANGED << tool, params, config, netlog >>
    /\ UNCHANGED startFrame

\* mcp.run(transport="http", host=host, port=port)
StartRun ==
    /\ tool = "start.py"
    /\ pc = "run"
    /\ netlog' = Append(netlog, ListenCall)
    /\ pc' = "listening"
    /\ UNCHANGED << tool, params, config, result >>
    /\ UNCHANGED startFrame

\* A client calls a tool of the listening server.
StartDispatch ==
    /\ tool = "start.py"
    /\ pc = "listening"
    /\ \E tl \in ServedTools :
          /\ tool' = tl
          /\ params' = IF tl = "check_mcp_status"
                       THEN [none |-> TRUE]
                       ELSE [ save_to_file |-> FALSE, analyze_image_with_llm |-> FALSE,
                              num_inference_steps |-> DefaultInferenceSteps ]
    /\ pc' = "entry"
    /\ UNCHANGED << config, result, netlog >>
    /\ UNCHANGED startFrame

NextStart ==
    \/ StartLoadConfig
    \/ StartConstruct
    \/ StartConfigure
    \/ StartRun
    \/ StartDispatch
    \/ Begin
    \/ CheckBegin
    \/ CheckProbe
    \/ CheckResponse
    \/ CheckReturn

SpecStart == InitStart /\ [][NextStart]_vars

\* ============================================================== properties

\* ----------------------------------------- what a stream says, line by line

\* The line carries undecodable bytes.
Undecodable(l) == InvalidByte \in { l.payload[i] : i \in 1..Len(l.payload) }

\* The line is the terminator `data: [DONE]`.
IsDoneLine(l) == l.head = DataPrefix /\ l.payload = DoneText

\* The position of the first terminator of lines, Len(lines) + 1 if none.
FirstDone(lines) ==
    IF \E i \in 1..Len(lines) : IsDoneLine(lines[i])
    THEN CHOOSE i \in 1..Len(lines) :
            /\ IsDoneLine(lines[i])
            /\ \A j \in 1..(i - 1) : ~IsDoneLine(lines[j])
    ELSE Len(lines) + 1

\* The payload is one JSON document with an object at choices[0].delta.
HasDelta(l) ==
    /\ Len(l.payload) = 1
    /\ l.payload[1] \in DOMAIN JsonDocs
    /\ LET doc == JsonDocs[l.payload[1]] IN
       /\ doc.t = "obj"
       /\ "choices" \in DOMAIN doc.v
       /\ doc.v["choices"].t = "arr"
       /\ Len(doc.v["choices"].v) > 0
       /\ doc.v["choices"].v[1].t = "obj"
       /\ "delta" \in DOMAIN doc.v["choices"].v[1].v
       /\ doc.v["choices"].v[1].v["delta"].t = "obj"

DeltaOf(l) == JsonDocs[l.payload[1]].v["choices"].v[1].v["delta"].v

\* The text a line contributes: the non-empty string at
\* choices[0].delta.content of a well-formed data line, nothing otherwise.
ChunkText(l) ==
    IF /\ l.head = DataPrefix
       /\ HasDelta(l)
       /\ "content" \in DOMAIN DeltaOf(l)
       /\ DeltaOf(l)["content"].t = "str"
    THEN DeltaOf(l)["content"].v
    ELSE <<>>

\* The contributions of the first n lines, in order.
RECURSIVE ConcatChunks(_, _)
ConcatChunks(lines, n) ==
    IF n = 0 THEN <<>> ELSE ConcatChunks(lines, n - 1) \o ChunkText(lines[n])

\* The text of a stream: what its lines before the first terminator say.
ExpectedText(lines) == ConcatChunks(lines, FirstDone(lines) - 1)

\* A data line whose payload is not valid JSON or lacks choices[0].delta.
MalformedData(l) ==
    /\ l.head = DataPrefix
    /\ l.payload # <<>>
    /\ l.payload # DoneText
    /\ ~Undecodable(l)
    /\ ~HasDelta(l)

\* A decodable line that, stripped, does not start with `data: `.
NonDataLine(l) ==
    /\ ~Undecodable(l)
    /\ l.head # DataPrefix \/ l.payload = <<>>

\* The loop takes the line after pos in this step.
ReadsLine == tool = "stream_chat" /\ pc = "read" /\ pos < Len(stream) /\ pos' = pos + 1

Hello == <<"H", "e", "l", "l", "o">>

\* ----------------------------------------------------------------------- C1
\* C1: when stream_chat returns, its result is the concatenation, in arrival
\* order, of the non-empty choices[0].delta.content strings of the
\* well-formed data lines before the first `data: [DONE]`; nothing after the
\* terminator contributes, and once the terminator is read the call is on
\* its way to a successful return.
C1_StreamResult ==
    tool = "stream_chat" =>
        /\ pc = "returned" =>
              /\ result.kind = "text"
              /\ result.text = ExpectedText(stream)
        /\ pos >= FirstDone(stream) =>
              /\ pos = FirstDone(stream)
              /\ pc \in {"finish", "returned"}
              /\ full_response = ExpectedText(stream)

\* Two chunks, the terminator, and a chunk after it: the result is "Hello".
C1_Witness ==
    /\ tool = "stream_chat"
    /\ pc = "returned"
    /\ stream = <<L_He, L_llo, L_done>>
    /\ result.text = Hello

\* ----------------------------------------------------------------------- C2
\* C2: reading a data line whose payload is not valid JSON, or whose JSON
\* lacks choices[0].delta, leaves the accumulator unchanged and neither ends
\* the stream nor fails the call: the loop goes on to the next line.
C2_MalformedSkipped ==
    [][ (ReadsLine /\ MalformedData(stream[pos + 1])) =>
            /\ full_response' = full_response
            /\ pc' = "read"
            /\ result' = result ]_vars

\* A malformed line between two chunks was read and the result is "Hello".
C2_Witness ==
    /\ tool = "stream_chat"
    /\ pc = "returned"
    /\ Len(stream) = 3
    /\ stream[1] = L_He
    /\ stream[2] \in {L_notjson, L_nokey, L_nochoices, L_nulldelta}
    /\ stream[3] = L_llo
    /\ result.text = Hello

\* ----------------------------------------------------------------------- C3
\* C3: when the stream reaches its end without a `data: [DONE]` line, the
\* call returns the text accumulated so far and does not fail.
C3_EofReturns ==
    (tool = "stream_chat" /\ ending = "eof" /\ FirstDone(stream) > Len(stream)) =>
        /\ pc \in {"finish", "returned"}
        /\ pos = Len(stream)
        /\ pc = "returned" =>
              /\ result.kind = "text"
              /\ result.text = full_response
              /\ result.text = ExpectedText(stream)

\* A stream of two chunks and no terminator returned "Hello".
C3_Witness ==
    /\ tool = "stream_chat"
    /\ pc = "returned"
    /\ ending = "eof"
    /\ stream = <<L_He, L_llo>>
    /\ result.text = Hello

C5_NonDataIgnored ==
    [][ (ReadsLine /\ NonDataLine(stream[pos + 1])) =>
            /\ full_response' = full_response
            /\ pc' = "read"
            /\ result' = result ]_vars

\* A chunk, then an `event:` line and a `data:` line without the space.
C5_Witness ==
    /\ tool = "stream_chat"
    /\ pc = "read"
    /\ stream = <<L_He, L_event, L_nospace>>
    /\ pos = 3
    /\ full_response = <<"H", "e">>

\* ----------------------------------------------------------------------- C6
\* C6: once upload_to_imagekit is over, no temporary file it created is
\* left on disk, whichever way it ended.
C6_TempFileDeleted ==
    pc \notin {"upload_write", "upload_send", "upload_finally"} =>
        created \cap disk = {}

\* ----------------------------------------------------------------------- C7
\* C7: upload_to_imagekit never raises: no tool call fails with an exception
\* that arose in it.
C7_UploadNeverRaises ==
    result.raised_by # "upload_to_imagekit"

\* ----------------------------------------------------------------------- C8
\* The ImageKit credentials are absent, empty or the shipped placeholders.
CredentialsUnusable(cfg) ==
    LET pk == ConfigGet(cfg, K_public_key, YNull)
        sk == ConfigGet(cfg, K_private_key, YNull)
        ue == ConfigGet(cfg, K_url_endpoint, YNull)
    IN  \/ \E x \in {pk, sk, ue} : x.t = "null" \/ IsString(x, "")
        \/ pk = YStr(PlaceholderPublicKey)
        \/ sk = YStr(PlaceholderPrivateKey)
        \/ ue = YStr(PlaceholderUrlEndpoint)

\* C8: with unusable ImageKit credentials the upload returns None without
\* creating a temporary file or calling the SDK, and a generation tool
\* called with save_to_file = true that got a 2xx response returns its
\* artifact without an imagekit_url annotation (generate_image with
\* analyze_image_with_llm can still fail in the captioning that follows).
C8_UnconfiguredSkipsUpload ==
    (tool \in GenTools /\ params.save_to_file /\ CredentialsUnusable(config)) =>
        /\ created = {}
        /\ disk = {}
        /\ url = YNull
        /\ \A i \in 1..Len(netlog) : netlog[i] # "imagekit.upload"
        /\ pc \notin {"upload_write", "upload_send", "upload_finally"}
        /\ pc = "returned" =>
              /\ result.kind = "artifact"
              /\ result.data = body
              /\ result.annotations = NoAnnotations
        /\ (pc = "failed" /\ status \in 200..299 /\ body # "") =>
              result.raised_by = "ask_with_images"

\* Placeholder credentials, save_to_file = true, a 2xx response: the
\* artifact came back after the one request.
C8_Witness ==
    /\ tool \in GenTools
    /\ params.save_to_file
    /\ ConfigGet(config, K_public_key, YNull) = YStr(PlaceholderPublicKey)
    /\ pc = "returned"
    /\ status = 200
    /\ result.kind = "artifact"
    /\ Len(netlog) = 1

\* ----------------------------------------------------------------------- C9
\* C9: a generation tool called with save_to_file = false never invokes the
\* upload, and the artifact it returns on a 2xx response has no annotations.
C9_NoSaveNoUpload ==
    (tool \in GenTools /\ ~params.save_to_file) =>
        /\ pc \notin {"upload_prepare", "upload_write", "upload_send", "upload_finally"}
        /\ created = {}
        /\ url = YNull
        /\ \A i \in 1..Len(netlog) : netlog[i] # "imagekit.upload"
        /\ pc = "returned" =>
              /\ result.kind = "artifact"
              /\ result.data = body
              /\ result.annotations = NoAnnotations

\* Usable credentials, save_to_file = false: the artifact came back bare.
C9_Witness ==
    /\ tool \in GenTools
    /\ ~params.save_to_file
    /\ ~CredentialsUnusable(config)
    /\ pc = "returned"
    /\ status = 200
    /\ result.kind = "artifact"
    /\ result.annotations = NoAnnotations

\* ---------------------------------------------------------------------- C10
\* The API token is absent or empty.
TokenMissing(cfg) ==
    LET token == ConfigGet(cfg, K_api_token, YNull) IN
    token.t = "null" \/ IsString(token, "")

\* generate_image called with num_inference_steps above its ceiling.
StepsOverCeiling ==
    tool = "generate_image" /\ params.num_inference_steps > MaxInferenceSteps

\* C10 (as stated): with the token absent or empty, every generation tool
\* and both chat tools fail with a message naming CHUTES_API_TOKEN, and no
\* HTTP request and no upload is made.
C10_TokenMissingMessage ==
    (TokenMissing(config) /\ pc # "entry") =>
        /\ pc = "failed"
        /\ result.kind = "error"
        /\ result.msg = TokenMsg
        /\ netlog = <<>>
        /\ created = {}

\* C10 (amended): with the token absent or empty, every generation tool and
\* both chat tools fail, and no HTTP request and no upload is made; the
\* message names CHUTES_API_TOKEN, except that generate_image called with
\* num_inference_steps above 60 reports the exceeded ceiling.
C10_TokenMissingFails ==
    (TokenMissing(config) /\ pc # "entry") =>
        /\ pc = "failed"
        /\ result.kind = "error"
        /\ result.msg = IF StepsOverCeiling THEN StepsMsg ELSE TokenMsg
        /\ netlog = <<>>
        /\ created = {}
        /\ status = 0

\* The token is the empty string and the call failed naming the variable.
C10_Witness ==
    /\ ConfigGet(config, K_api_token, YNull) = YStr("")
    /\ pc = "failed"
    /\ result.msg = TokenMsg
    /\ netlog = <<>>


\* ---------------------------------------------------------------------- C11
\* The tool's endpoint URL is absent or empty.
EndpointMissing(cfg, tl) ==
    LET endpoint == ConfigGet(cfg, K_endpoint(tl), YNull) IN
    endpoint.t = "null" \/ IsString(endpoint, "")

\* C11 (as stated): with the token set and the tool's endpoint absent or
\* empty, every generation tool and both chat tools fail with the message
\* that the endpoint is not configured and send no HTTP request; with both
\* missing the failure is the token one.
C11_EndpointMissingMessage ==
    (tool \in GenTools \cup ChatTools /\ EndpointMissing(config, tool) /\ pc # "entry") =>
        /\ pc = "failed"
        /\ result.kind = "error"
        /\ result.msg = IF TokenMissing(config) THEN TokenMsg ELSE EndpointMsg[tool]
        /\ netlog = <<>>

\* C11 (amended): with the token set and the tool's endpoint absent or
\* empty, every generation tool and both chat tools fail and send no HTTP
\* request; the message says the endpoint is not configured, and with both
\* missing it is the token one, except that generate_image called with
\* num_inference_steps above 60 reports the exceeded ceiling in both cases.
C11_EndpointMissingFails ==
    (tool \in GenTools \cup ChatTools /\ EndpointMissing(config, tool) /\ pc # "entry") =>
        /\ pc = "failed"
        /\ result.kind = "error"
        /\ result.msg = IF StepsOverCeiling THEN StepsMsg
                        ELSE IF TokenMissing(config) THEN TokenMsg
                        ELSE EndpointMsg[tool]
        /\ netlog = <<>>
        /\ status = 0
        /\ created = {}

\* The token is set, the endpoint is the empty string, and the call failed
\* saying the endpoint is not configured.
C11_Witness ==
    /\ tool \in GenTools \cup ChatTools
    /\ ~TokenMissing(config)
    /\ ConfigGet(config, K_endpoint(tool), YNull) = YStr("")
    /\ pc = "failed"
    /\ result.msg = EndpointMsg[tool]
    /\ netlog = <<>>

\* ---------------------------------------------------------------------- C14
\* What walking the mapping v along the segments reaches, if every segment
\* exists and every value on the way is a mapping.
RECURSIVE Reach(_, _)
Reach(v, segs) ==
    IF segs = <<>> THEN [found |-> TRUE, value |-> v]
    ELSE IF v.t = "obj" /\ Head(segs) \in DOMAIN v.v
         THEN Reach(v.v[Head(segs)], Tail(segs))
         ELSE [found |-> FALSE, value |-> YNull]

\* C14: Config.get(key, default) returns the value reached by walking the
\* nested mapping segment by segment when every segment exists, returns the
\* default when a segment is missing or a value on the way is not a mapping
\* (scalar, string, list, null root), and never raises.
C14_GetWalksOrDefaults ==
    (tool = "Config.get" /\ pc # "entry") =>
        /\ pc = "returned"
        /\ result.kind = "value"
        /\ result.value = IF Reach(config, params.key).found
                          THEN Reach(config, params.key).value
                          ELSE params.default

\* get("a.l.x", "fallback") where a.l is a list returned "fallback".
C14_Witness ==
    /\ tool = "Config.get"
    /\ config = D_nested
    /\ params.key = <<"a", "l", "x">>
    /\ pc = "returned"
    /\ result.value = YStr("fallback")

\* ---------------------------------------------------------------------- C12
\* The entries of the result that are about the component named.
EntriesAbout(entries, component) ==
    { j \in DOMAIN entries : entries[j].component = component }

\* C12 (as stated): the health check returns one entry per endpoint plus one
\* for the quota probe, and no others.
C12_EndpointsPlusQuota ==
    (tool = "check_mcp_status" /\ pc = "returned") =>
        Len(result.value) = Len(EndpointsToCheck) + 1

\* C12 (amended): the health check returns one entry for the server
\* instance, one per endpoint of its list whether or not the endpoint is
\* configured, and one for the quota probe, and no others: N + 2 entries
\* for its N endpoints.
C12_ServerEndpointsQuota ==
    (tool = "check_mcp_status" /\ pc = "returned") =>
        /\ Len(result.value) = Len(EndpointsToCheck) + 2
        /\ Cardinality(EntriesAbout(result.value, McpComponent)) = 1
        /\ Cardinality(EntriesAbout(result.value, QuotaComponent)) = 1
        /\ \A i \in DOMAIN EndpointsToCheck :
              Cardinality(EntriesAbout(result.value, EndpointsToCheck[i].name)) = 1

\* Three of the seven endpoints configured, and nine entries came back.
C12_Witness ==
    /\ tool = "check_mcp_status"
    /\ pc = "returned"
    /\ Len(netlog) = 3
    /\ Len(result.value) = 9

\* ---------------------------------------------------------------------- C13
\* The url of the endpoint at i (the token, for the quota probe) is unset.
Unset(cfg, i) ==
    LET gate == GateAt(cfg, i) IN gate.t = "null" \/ IsString(gate, "")

\* The request line of each probe.
RequestLine == [i \in 1..QuotaIndex |-> "GET " \o ComponentAt(i)]

\* A request for the component at i has been sent.
Probed(i) == \E k \in DOMAIN netlog : netlog[k] = RequestLine[i]

\* What the probe of the component at i met with.
OutcomeAt(i) ==
    responses[CHOOSE k \in DOMAIN responses :
                 responses[k].component = ComponentAt(i)].outcome

\* The tag the rules give the entry of a probe that met with outcome.
RuledStatus(i, outcome) ==
    IF outcome.exc # "none" THEN "ERROR"
    ELSE IF i = QuotaIndex
         THEN IF outcome.status # 200 THEN "WARNING"
              ELSE IF outcome.body = "json" THEN "SUCCESS" ELSE "ERROR"
         ELSE IF outcome.status = 400 THEN "SUCCESS" ELSE "WARNING"

\* C13: every probe entry is tagged by the rules: an endpoint answering 400
\* is SUCCESS and any other status WARNING; the quota endpoint answering 200
\* is SUCCESS and any other status WARNING; an exception during a probe
\* (connection failure, timeout, a 200 quota body that cannot be parsed) is
\* ERROR; an unset url (an unset token, for the quota probe) is INFO with no
\* request sent.  No entry is UNKNOWN.
C13_EntryTags ==
    tool = "check_mcp_status" =>
        /\ \A j \in DOMAIN structured_statuses :
              structured_statuses[j].status \in {"SUCCESS", "WARNING", "ERROR", "INFO"}
        /\ \A i \in 1..QuotaIndex :
              IF Unset(config, i)
              THEN /\ ~Probed(i)
                   /\ i + 1 \in DOMAIN structured_statuses =>
                         structured_statuses[i + 1] = Entry(ComponentAt(i), "INFO")
              ELSE i + 1 \in DOMAIN structured_statuses =>
                      structured_statuses[i + 1] =
                         Entry(ComponentAt(i), RuledStatus(i, OutcomeAt(i)))

\* A returned check whose entries carry all four tags, a 200 from an
\* endpoint among the responses.
C13_Witness ==
    /\ tool = "check_mcp_status"
    /\ pc = "returned"
    /\ { result.value[j].status : j \in DOMAIN result.value }
          = {"SUCCESS", "WARNING", "ERROR", "INFO"}
    /\ \E k \in DOMAIN responses :
          /\ responses[k].component # QuotaComponent
          /\ responses[k].outcome = Answer(200, "-")

\* ---------------------------------------------------------------------- C19
\* The order of the probes, as the claim lists it.
ClaimedOrder ==
    << "LLM", "Text to Image", "Text to Music", "Image to Image", "Text to Video",
       "Image to Video", "Image to Video Fast", "Quota Usage API" >>

\* The place in the claimed order of the request logged as g.
ClaimedLine == [i \in DOMAIN ClaimedOrder |-> "GET " \o ClaimedOrder[i]]
PlaceOf(g) == CHOOSE i \in DOMAIN ClaimedOrder : g = ClaimedLine[i]

\* C19: the health check sends its probes one after another in the fixed
\* order: at most one request is in flight, requests and entries follow the
\* order LLM, Text to Image, Text to Music, Image to Image, Text to Video,
\* Image to Video, Image to Video Fast, quota; and a probe that fails or
\* times out does not stop the later ones from being sent.
C19_ProbesInOrder ==
    tool = "check_mcp_status" =>
        /\ Len(netlog) - Len(responses) \in {0, 1}
        /\ Len(netlog) - Len(responses) = 1 <=> pc = "check_wait"
        /\ \A a \in 1..(Len(netlog) - 1) :
              PlaceOf(netlog[a]) < PlaceOf(netlog[a + 1])
        /\ \A j \in DOMAIN structured_statuses :
              j > 1 => structured_statuses[j].component = ClaimedOrder[j - 1]
        /\ pc # "failed"
        /\ pc = "returned" =>
              \A i \in DOMAIN ClaimedOrder :
                 ~Unset(config, i) => \E k \in DOMAIN netlog : PlaceOf(netlog[k]) = i

\* Every endpoint configured, the first probe timed out, the second met a
\* connection failure, and all eight requests were sent.
C19_Witness ==
    /\ tool = "check_mcp_status"
    /\ pc = "returned"
    /\ Len(netlog) = 8
    /\ responses[1].outcome = Broken("TimeoutError")
    /\ responses[2].outcome = Broken("ClientError")

\* The kind of result each tool is declared to return.
DeclaredKind(tl) == IF tl \in GenTools THEN "artifact" ELSE "text"

OwnPost(tl) == IF tl \in GenTools THEN "POST " \o Capability[tl] ELSE "POST llm"
CaptionPost == "POST llm"
UploadCall == "imagekit.upload"

\* The logs with at most one request of each kind, in the order of the code.
SingleRequestLogs(tl) ==
    IF tl \in GenTools
    THEN { <<>>, <<OwnPost(tl)>>, <<OwnPost(tl), UploadCall>>,
           <<OwnPost(tl), CaptionPost>>, <<OwnPost(tl), UploadCall, CaptionPost>> }
    ELSE { <<>>, <<OwnPost(tl)>> }

\* The upload call was made and raised: nothing came back from it.
UploadFailed ==
    /\ \E k \in DOMAIN netlog : netlog[k] = UploadCall
    /\ pc # "upload_send"
    /\ url = YNull

\* C16 as stated: at most one request of each kind, and after a request
\* that failed, the upload included, no further outbound request.
C16_NothingAfterAnyFailure ==
    /\ netlog \in SingleRequestLogs(tool)
    /\ pc = "failed" /\ result.raised_by \in {"request", "response", "stream"} =>
          netlog = <<OwnPost(tool)>>
    /\ pc = "failed" /\ result.raised_by = "ask_with_images" =>
          netlog[Len(netlog)] = CaptionPost
    /\ UploadFailed => netlog[Len(netlog)] = UploadCall

\* C16: a tool invocation makes at most one request of its own endpoint, at
\* most one upload call and at most one captioning request, in that order
\* and only those its flags ask for; when its own request or the captioning
\* request fails that request is the last one; an upload that failed is
\* followed by nothing but the captioning request the caller asked for.
C16_NoRetry ==
    /\ netlog \in SingleRequestLogs(tool)
    /\ pc = "failed" /\ result.raised_by \in {"request", "response", "stream"} =>
          netlog = <<OwnPost(tool)>>
    /\ pc = "failed" /\ result.raised_by = "ask_with_images" =>
          netlog[Len(netlog)] = CaptionPost
    /\ (\E k \in DOMAIN netlog : netlog[k] = UploadCall) => params.save_to_file
    /\ tool \in GenTools /\ netlog # <<>> /\ netlog[Len(netlog)] = CaptionPost =>
          tool = "generate_image" /\ params.analyze_image_with_llm
    /\ UploadFailed /\ netlog[Len(netlog)] # UploadCall =>
          /\ netlog = <<OwnPost(tool), UploadCall, CaptionPost>>
          /\ params.analyze_image_with_llm

\* generate_image returned after its upload failed and its captioning
\* request was answered.
C16_Witness ==
    /\ tool = "generate_image"
    /\ pc = "returned"
    /\ UploadFailed
    /\ netlog = <<"POST text_to_image", "imagekit.upload", "POST llm">>

\* The inputs C20 says are accepted, by what the input is: bytes, or text
\* that opens with one of the two schemes.
Accepted(img) ==
    \/ img.type = "bytes"
    \/ img.type = "str" /\ img.scheme \in {Http, DataImage}

\* The URI C20 gives an accepted input.
ClaimedUri(img) ==
    IF img.type = "bytes"
    THEN CASE img.rest = <<"bytes-1">> ->
                <<"d", "a", "t", "a", ":", "i", "m", "a", "g", "e", "/jpeg;base64,",
                  "Ynl0ZXMtMQ==">>
           [] img.rest = <<"bytes-2">> ->
                <<"d", "a", "t", "a", ":", "i", "m", "a", "g", "e", "/jpeg;base64,",
                  "Ynl0ZXMtMg==">>
    ELSE img.scheme \o img.rest

\* The place in the input of the k-th accepted image.
AcceptedPlace(images, k) ==
    CHOOSE i \in DOMAIN images :
        /\ Accepted(images[i])
        /\ Cardinality({j \in 1..i : Accepted(images[j])}) = k

C17_InvocationsIsolated ==
    \A t \in TaskIds :
        /\ tasks[t].tool = "stream_chat" /\ tasks[t].pc = "returned" =>
              tasks[t].result = ExpectedText(tasks[t].stream)
        /\ tasks[t].tool = "stream_chat" => tasks[t].created = {}
        /\ tasks[t].opened \subseteq tasks[t].created
        /\ tasks[t].removed \subseteq tasks[t].created
        /\ \A u \in TaskIds \ {t} :
              (tasks[t].created \ tasks[t].removed)
                  \cap (tasks[u].created \ tasks[u].removed) = {}

\* One invocation leaked its temporary file, the other uploaded and removed
\* its own; both are over.
C17_Witness ==
    /\ tasks[1].tool = "generate_image" /\ tasks[1].pc = "returned"
    /\ tasks[1].created # {} /\ tasks[1].removed = {}
    /\ tasks[2].tool = "generate_image" /\ tasks[2].pc = "returned"
    /\ tasks[2].removed # {}
    /\ tasks[1].created \subseteq disk

\* A network call of the invocation t is outstanding.
IoOutstanding(t) == tasks[t].pc \in {"post_wait", "uploading"}

\* C18: while a network call of one invocation is outstanding, that
\* invocation does not hold the event loop: the others can take steps.
C18_IoSuspendsTask ==
    \A t \in TaskIds : IoOutstanding(t) => running # t

\* The 2xx JSON answers that lack choices[0].message.content: no choices
\* key, an empty choices list, a null element, a null content.
LackingContent == { J_nokey, J_nochoices, J_nullchoice, J_nullcontent }

\* C21: chat, answered with status 200 and a JSON document that lacks
\* choices[0].message.content, ends in a tool failure whose message is that
\* of a response-parsing error; it never returns a null or empty text.
C21_MalformedIsParseError ==
    tool = "chat" /\ status = 200 /\ body \in LackingContent =>
        /\ pc = "failed"
        /\ result.exc_type = "ToolError"
        /\ result.msg = ParseMsg

\* One step of generate_image keeps the order of C22, with `accepted` the
\* statuses of a generation response after which the tool goes on: the POST
\* follows the configuration checks; the upload step starts only from the
\* POST, with save_to_file set, an accepted status and the body read;
\* captioning starts only with analyze_image_with_llm set, after the upload
\* step when there is one; the return follows the last enabled step.
StepInOrder(accepted) ==
    tool = "generate_image" =>
        /\ pc' = "post" => pc = "entry" /\ netlog = <<>>
        /\ netlog' # netlog /\ netlog = <<>> => pc = "post" /\ netlog' = <<"POST text_to_image">>
        /\ pc' \in {"upload_prepare", "caption", "returned"} =>
              /\ status' \in accepted
              /\ body' \in Bodies
              /\ netlog'[1] = "POST text_to_image"
        /\ pc' = "upload_prepare" => pc = "post" /\ params.save_to_file
        /\ pc' \in {"upload_write", "upload_send", "upload_finally"} =>
              pc \in {"upload_prepare", "upload_write", "upload_send"}
        /\ netlog' # netlog /\ netlog # <<>> =>
              \/ pc = "upload_send" /\ netlog' = Append(netlog, "imagekit.upload")
              \/ pc = "caption" /\ netlog' = Append(netlog, "POST llm")
        /\ pc' = "caption" =>
              /\ params.analyze_image_with_llm
              /\ IF params.save_to_file
                 THEN pc \in {"upload_prepare", "upload_finally"}
                 ELSE pc = "post"
        /\ pc' = "returned" =>
              IF params.analyze_image_with_llm THEN pc = "caption"
              ELSE IF params.save_to_file THEN pc \in {"upload_prepare", "upload_finally"}
              ELSE pc = "post"

ClaimedJsonText(x) ==
    CASE x = YStr("") -> "\"\""
      [] x = YStr("a red fox") -> "\"a red fox\""
      [] x = YNum(0) -> "0"
      [] x = YNum(7) -> "7"
      [] x = YBool(FALSE) -> "false"

\* The members of the JSON text sent, as the set of its key-text pairs.
SentMembers(text) == { text[i] : i \in DOMAIN text }

\* C23: the custom metadata of every upload sent has the single field
\* generation_parameters, whose value is one JSON string; the members of
\* that JSON text are exactly the entries of the caller's metadata whose
\* value is not None, each once, falsy values (0, "", false) included.
C23_MetadataSent ==
    \A i \in DOMAIN sent_bodies :
        LET custom == sent_bodies[i].custom_metadata
            metadata == params.metadata
            kept == {k \in DOMAIN metadata : metadata[k] # YNull}
        IN  /\ DOMAIN custom = {"generation_parameters"}
            /\ custom.generation_parameters.t = "str"
            /\ Len(custom.generation_parameters.v) = Cardinality(kept)
            /\ SentMembers(custom.generation_parameters.v) =
                  { <<"\"" \o k \o "\"", ClaimedJsonText(metadata[k])>> : k \in kept }

\* An upload sent for metadata with an empty prompt, seed 0 and no model.
C23_Witness ==
    /\ tool = "upload_to_imagekit"
    /\ pc = "returned"
    /\ params.metadata = [model |-> YNull, prompt |-> YStr(""), seed |-> YNum(0)]
    /\ Len(sent_bodies) = 1
    /\ Len(sent_bodies[1].custom_metadata.generation_parameters.v) = 2

\* A call with num_inference_steps above the ceiling ended in the failure
\* that names the ceiling, and nothing was sent.
CeilingFailure ==
    /\ pc = "failed"
    /\ result.exc_type = "ToolError"
    /\ result.msg = "num_inference_steps cannot exceed 60."
    /\ netlog = <<>>

UploadGaveUrl ==
    /\ \E k \in DOMAIN netlog : netlog[k] = "imagekit.upload"
    /\ url.t = "str"
    /\ url.v # ""

\* C25: when a generation tool returns, the payload of its artifact is the
\* body it read from the provider's response, and the artifact has an
\* imagekit_url annotation exactly when save_to_file was set and the upload
\* returned a non-empty URL; the annotation is then that URL.
C25_PayloadAndAnnotation ==
    tool \in GenTools /\ pc = "returned" =>
        /\ result.kind = "artifact"
        /\ body \in Bodies
        /\ result.data = body
        /\ result.annotations.has <=> (params.save_to_file /\ UploadGaveUrl)
        /\ result.annotations.has => result.annotations.imagekit_url = url.v
        /\ ~result.annotations.has => result.annotations.imagekit_url = ""

\* generate_music returned its audio with the URL the upload gave.
C25_Witness ==
    /\ tool = "generate_music"
    /\ pc = "returned"
    /\ params.save_to_file
    /\ result.data = "bytes-2"
    /\ result.annotations.has
    /\ result.annotations.imagekit_url = "https://ik.imagekit.io/chutes/Chutes/generated.bin"

\* C26: check_mcp_status never ends in a failure, whatever each probe met
\* with and whatever is unset, and the result it returns has as many lines
\* of text as structured entries, the i-th line being about the i-th entry:
\* it names that entry's component and opens with that entry's status (the
\* line for the server object opens with no level).
C26_LinesMatchEntries ==
    /\ tool = "check_mcp_status" => pc # "failed" /\ result.kind # "error"
    /\ tool = "check_mcp_status" /\ pc = "returned" =>
          /\ result.kind = "checks"
          /\ Len(result.text) = Len(result.value)
          /\ Len(result.value) = QuotaIndex + 1
          /\ \A i \in DOMAIN result.value :
                /\ result.text[i].about = result.value[i].component
                /\ result.text[i].level \in {"", result.value[i].status}
                /\ result.text[i].level = "" => i = 1

\* A check that returned after a probe timed out, the quota body could not be
\* parsed, and another probe was answered.
C26_Witness ==
    /\ tool = "check_mcp_status"
    /\ pc = "returned"
    /\ \E i \in DOMAIN responses : responses[i].outcome = Broken("TimeoutError")
    /\ \E i \in DOMAIN responses : responses[i].outcome = Answer(200, "notjson")
    /\ \E i \in DOMAIN responses : responses[i].outcome = Answer(400, "-")
    /\ Len(result.text) = QuotaIndex + 1

\* The value a document holds under a path of segments: Absent where a
\* segment is not a key of a mapping reached so far.
RECURSIVE StoredAt(_, _)
StoredAt(doc, segs) ==
    IF segs = <<>> THEN doc
    ELSE IF doc.t = "obj" /\ Head(segs) \in DOMAIN doc.v
         THEN StoredAt(doc.v[Head(segs)], Tail(segs))
         ELSE Absent

\* C29: Config.get returns the default only when the key path cannot be
\* walked; when the whole path exists it returns the value stored there, and
\* for a stored null that is None even if the caller gave a non-None default.
C29_NullIsNotDefaulted ==
    tool = "Config.get" /\ pc # "entry" =>
        LET stored == StoredAt(config, params.key) IN
        /\ pc = "returned"
        /\ stored.t = "absent" => result.value = params.default
        /\ stored.t # "absent" => result.value = stored
        /\ stored.t = "null" => result.value = YNull

\* A call with a non-None default for a key whose stored value is null.
C29_Witness ==
    /\ tool = "Config.get"
    /\ pc = "returned"
    /\ config = D_nested
    /\ params = [key |-> <<"a", "n">>, default |-> YStr("fallback")]
    /\ result.value = YNull

\* The lines whose bytes are not UTF-8: one that is no data line, and one
\* that opens as a data line does.
UndecodableLines == { L_undecodable, L_undecodableData }

\* C30: in stream_chat a line whose bytes cannot be decoded as UTF-8 is not
\* skipped: reading it ends the whole call with a tool failure that carries
\* none of the text accumulated, whether or not the line opens with the data
\* prefix; every other line, a payload that is not JSON or lacks a field
\* included, leaves the call reading or at the end of its loop.
C30_UndecodableEndsCall ==
    [][ ReadsLine =>
          IF stream[pos + 1] \in UndecodableLines
          THEN /\ pc' = "failed"
               /\ result'.kind = "error"
               /\ result'.exc_type = "ToolError"
               /\ result'.msg = UnexpectedMsg
               /\ result'.text = <<>>
          ELSE /\ pc' \in {"read", "finish"}
               /\ result' = result ]_vars

\* A call that had accumulated text when an undecodable data line ended it.
C30_Witness ==
    /\ tool = "stream_chat"
    /\ pc = "failed"
    /\ pos = 2
    /\ stream[1] = L_He
    /\ stream[2] = L_undecodableData
    /\ full_response # <<>>
    /\ result.msg = UnexpectedMsg

\* The tools that report progress.
ProgressTools == {"stream_chat", "chat", "generate_image", "edit_image", "describe_image"}

\* The reports made so far never go back, never pass their total, and all
\* carry the same total.
ReportsOrdered ==
    \A i \in DOMAIN reports :
        /\ reports[i].progress <= reports[i].total
        /\ reports[i].total = reports[1].total
        /\ i > 1 => reports[i - 1].progress <= reports[i].progress

\* C27: in every tool that reports progress, for every combination of its
\* flags, the progress values never decrease and never exceed the total, the
\* total is the same in every report, and when the tool returns its last
\* report has progress equal to the total.
C27_ProgressReachesTotal ==
    tool \in ProgressTools =>
        /\ ReportsOrdered
        /\ pc = "returned" =>
              /\ reports # <<>>
              /\ reports[Len(reports)].progress = reports[Len(reports)].total

\* The server listens: mcp.run was called.
Listening == netlog # <<>> /\ netlog[1] = ListenCall

\* What the claim calls configured: a string that is not empty.
Configured(x) == x.t = "str" /\ x.v # ""

\* C28: the listener is started only if the configuration was loaded and
\* holds both an API token and an LLM endpoint; once the configuration is
\* loaded without one of them, the constructor of MultimodalLLM raises and
\* start-up is abandoned; and in a process that listens no tool call ends in
\* the missing-token failure and the health check makes no INFO entry for a
\* missing token.
C28_ListenerNeedsToken ==
    /\ Listening =>
          /\ config # Unloaded
          /\ Configured(StoredAt(config, <<"chutes", "api_token">>))
          /\ Configured(StoredAt(config, <<"chutes", "endpoints", "llm">>))
          /\ ~(result.kind = "error" /\ result.msg = TokenMsg)
          /\ \A i \in DOMAIN structured_statuses :
                structured_statuses[i] # Entry(QuotaComponent, "INFO")
    /\ ( /\ tool = "start.py"
         /\ config # Unloaded
         /\ pc # "construct"
         /\ \/ ~Configured(StoredAt(config, <<"chutes", "api_token">>))
            \/ ~Configured(StoredAt(config, <<"chutes", "endpoints", "llm">>)) )
       => /\ pc = "abandoned"
          /\ result.exc_type = "ToolError"
          /\ result.raised_by = StartupConstructor
    /\ tool # "start.py" => Listening
    /\ pc = "abandoned" => ~Listening

\* A start-up that the constructor abandoned for a token that is an empty
\* string, after the configuration had loaded.
C28_Witness ==
    /\ tool = "start.py"
    /\ pc = "abandoned"
    /\ StoredAt(config, <<"chutes", "api_token">>) = YStr("")
    /\ result.msg = TokenMsg
    /\ result.raised_by = StartupConstructor

\* A server that listens and has answered a health check.
C28_Serving ==
    /\ Listening
    /\ tool = "check_mcp_status"
    /\ pc = "returned"

====
